---- MODULE Spec2Model ----
(***************************************************************************)
(* State-machine model of benvon/sitemap-crawler.                          *)
(*                                                                         *)
(*   - the backoff Manager (package backoff): ShouldBackoff and its        *)
(*     helpers, as operators over the Manager record, driven by the        *)
(*     actions of SpecBackoff;                                             *)
(*   - the crawl engine (package crawler): feeder, worker pool, token      *)
(*     bucket, result channel and the statistics aggregator, driven by     *)
(*     the actions of Spec.                                                *)
(*   - the statistics aggregator (package stats) on its own, fed the       *)
(*     results of one run, driven by the actions of SpecStats;             *)
(*   - the sitemap parser (package parser) as operators over what the      *)
(*     sitemap URL answers, applied by Run;                                *)
(*   - crawlURL on its own (SpecFetch), a crawl of more URLs than the      *)
(*     bucket holds tokens (SpecBurst), and the run under fair scheduling  *)
(*     (SpecLive);                                                         *)
(*   - the progress reporter of a standard crawl (SpecReport).             *)
(*                                                                         *)
(* Durations and instants are integers (ticks of the clock).  A float64    *)
(* factor is a pair <<num, den>>; time.Duration(float64(d) * f) is the     *)
(* product truncated to a whole tick.                                      *)
(***************************************************************************)
EXTENDS Integers, Sequences, FiniteSets, TLC

VARIABLES
    mgr,        \* the backoff Manager: configuration and state fields
    clock,      \* time.Now() as seen by the Manager
    ret,        \* what the last ShouldBackoff call returned
    last,       \* the last observation fed to ShouldBackoff (history)
    all403,     \* instants of every 403 observation fed so far (history)
    streak,     \* consecutive 5xx observations since backoff was inactive (history)
    cancelErr,  \* the error returned by the cancelling observation (history)
    cancelCalls,\* how often the installed cancel function was invoked
    nObs,       \* number of ShouldBackoff calls made
    cfg,        \* the crawler's config.Config (the fields the engine reads)
    pc,         \* where Crawler.Run stands: [at, phase]
    limiters,   \* the rate.Limiter instances, by <<phase, slot>>
    urlChan,    \* per phase: the URL channel and the feeder's position
    workers,    \* per phase and worker: position in Crawler.worker and its URL
    resultChan, \* per phase: the result channel
    wg,         \* per phase: the sync.WaitGroup counter
    stats,      \* the stats.Stats aggregator
    issued,     \* per phase: HTTP requests issued (history)
    recorded,   \* per phase and URL: results recorded in the aggregator (history)
    returned,   \* per phase: the phase function has returned (history)
    endedAt,    \* per phase: the instant at which it returned (history)
    seen403,    \* instants at which a worker received a 403 (history)
    cancelDue,  \* the 403 threshold has been crossed within the window (history)
    panicked,   \* a goroutine sent on a closed channel
    seed,       \* what the GET of the sitemap URL answers: status and document
    runErr,     \* the error Crawler.Run returned
    fetch,      \* one call of crawlURL on its own: its inputs and its Result
    statsLock,  \* the lock the last method called on the aggregator took
    reporter    \* the progress reporter of a standard crawl, and what was printed

backoffVars == <<mgr, ret, last, all403, streak, cancelErr, cancelCalls, nObs>>

crawlVars == <<cfg, seed, pc, limiters, urlChan, workers, resultChan, wg, stats, statsLock, issued,
               recorded, returned, endedAt, seen403, cancelDue, panicked, runErr, fetch, reporter>>

vars == <<mgr, clock, ret, last, all403, streak, cancelErr, cancelCalls, nObs,
          cfg, seed, pc, limiters, urlChan, workers, resultChan, wg, stats, statsLock, issued,
          recorded, returned, endedAt, seen403, cancelDue, panicked, runErr, fetch, reporter>>

----------------------------------------------------------------------------
(* Bounds of the model *)

MaxObs == 4
MaxClock == 2
MaxThreshold == 2
MaxWindow == 1
MaxWorkers == 2
MaxURLs == 2
MaxRate == 1
MaxResults == 3
MaxTargets == 3
BurstRate == 2
MaxTicks == 2

(* Program constants *)

responseTimeWindow == 20

----------------------------------------------------------------------------
(* package backoff *)

\* Status codes and durations fed to the controller.
Statuses == {200, 403, 404, 500}
Durations == {1, 10}

\* time.Duration(float64(d) * f) for a factor f = <<num, den>>.
ScaleDuration(d, f) == (d * f[1]) \div f[2]

\* The errors ShouldBackoff can return, told apart by their text.
NoError == [msg |-> "nil", count |-> 0, window |-> 0]
ErrAlreadyCancelled ==
    [msg |-> "crawl cancelled due to too many 403 errors", count |-> 0, window |-> 0]
ErrThreshold(n, w) ==
    [msg |-> "crawl cancelled: %d 403 errors within %v window", count |-> n, window |-> w]

NewManager(enabled, initialDelay, maxDelay, multiplier, degradation, threshold, window) ==
    [ enabled                          |-> enabled,
      initialDelay                     |-> initialDelay,
      maxDelay                         |-> maxDelay,
      multiplier                       |-> multiplier,
      responseTimeDegradationThreshold |-> degradation,
      forbiddenErrorThreshold          |-> threshold,
      forbiddenErrorWindow             |-> window,
      currentDelay                     |-> initialDelay,
      backoffActive                    |-> FALSE,
      baselineResponseTime             |-> 0,
      recentResponseTimes              |-> <<>>,
      forbiddenErrors                  |-> <<>>,
      cancelled                        |-> FALSE,
      cancelFunc                       |-> FALSE ]

\* activateBackoff without the cap at maxDelay.
activateBackoffNoCap(s) ==
    IF ~s.backoffActive
    THEN [s EXCEPT !.backoffActive = TRUE, !.currentDelay = s.initialDelay]
    ELSE [s EXCEPT !.currentDelay = ScaleDuration(s.currentDelay, s.multiplier)]

\* activateBackoff that restarts at initialDelay on every call.
activateBackoffNoGrowth(s) ==
    [s EXCEPT !.backoffActive = TRUE, !.currentDelay = s.initialDelay]

activateBackoff(s) ==
    IF ~s.backoffActive
    THEN [s EXCEPT !.backoffActive = TRUE, !.currentDelay = s.initialDelay]
    ELSE LET newDelay == ScaleDuration(s.currentDelay, s.multiplier)
         IN  IF newDelay > s.maxDelay
             THEN [s EXCEPT !.currentDelay = s.maxDelay]
             ELSE [s EXCEPT !.currentDelay = newDelay]

\* resetBackoff that clears the flag and keeps the escalated delay.
resetBackoffKeepDelay(s) ==
    IF s.backoffActive THEN [s EXCEPT !.backoffActive = FALSE] ELSE s

\* resetBackoff that leaves the delay at maxDelay.
resetBackoffToMax(s) ==
    IF s.backoffActive
    THEN [s EXCEPT !.backoffActive = FALSE, !.currentDelay = s.maxDelay]
    ELSE s

resetBackoff(s) ==
    IF s.backoffActive
    THEN [s EXCEPT !.backoffActive = FALSE, !.currentDelay = s.initialDelay]
    ELSE s

RECURSIVE SumSeq(_)
SumSeq(q) == IF q = <<>> THEN 0 ELSE Head(q) + SumSeq(Tail(q))

getCurrentAverageResponseTime(s) ==
    IF Len(s.recentResponseTimes) = 0
    THEN 0
    ELSE SumSeq(s.recentResponseTimes) \div Len(s.recentResponseTimes)

\* trackResponseTime that sets the baseline again whenever the ring is half full.
trackResponseTimeRebaseline(s, duration) ==
    LET appended == Append(s.recentResponseTimes, duration)
        kept     == IF Len(appended) > responseTimeWindow THEN Tail(appended) ELSE appended
        s1       == [s EXCEPT !.recentResponseTimes = kept]
    IN  IF Len(kept) >= responseTimeWindow \div 2
        THEN [s1 EXCEPT !.baselineResponseTime = getCurrentAverageResponseTime(s1)]
        ELSE s1

\* trackResponseTime that takes the baseline from the first sample on.
trackResponseTimeEarlyBaseline(s, duration) ==
    LET appended == Append(s.recentResponseTimes, duration)
        kept     == IF Len(appended) > responseTimeWindow THEN Tail(appended) ELSE appended
        s1       == [s EXCEPT !.recentResponseTimes = kept]
    IN  IF s1.baselineResponseTime = 0
        THEN [s1 EXCEPT !.baselineResponseTime = getCurrentAverageResponseTime(s1)]
        ELSE s1

\* trackResponseTime that never drops the oldest sample.
trackResponseTimeNoDrop(s, duration) ==
    LET s1 == [s EXCEPT !.recentResponseTimes = Append(@, duration)]
    IN  IF s1.baselineResponseTime = 0
           /\ Len(s1.recentResponseTimes) >= responseTimeWindow \div 2
        THEN [s1 EXCEPT !.baselineResponseTime = getCurrentAverageResponseTime(s1)]
        ELSE s1

trackResponseTime(s, duration) ==
    LET appended == Append(s.recentResponseTimes, duration)
        kept     == IF Len(appended) > responseTimeWindow THEN Tail(appended) ELSE appended
        s1       == [s EXCEPT !.recentResponseTimes = kept]
    IN  IF s1.baselineResponseTime = 0 /\ Len(kept) >= responseTimeWindow \div 2
        THEN [s1 EXCEPT !.baselineResponseTime = getCurrentAverageResponseTime(s1)]
        ELSE s1

\* isResponseTimeDegraded that also fires when the average is at the bound.
isResponseTimeDegradedAtBound(s) ==
    IF s.baselineResponseTime = 0 \/ Len(s.recentResponseTimes) < responseTimeWindow \div 2
    THEN FALSE
    ELSE LET currentAvg == getCurrentAverageResponseTime(s)
             t == s.responseTimeDegradationThreshold
             degradationThreshold == ScaleDuration(s.baselineResponseTime, <<t[2] + t[1], t[2]>>)
         IN  currentAvg >= degradationThreshold

isResponseTimeDegraded(s) ==
    IF s.baselineResponseTime = 0 \/ Len(s.recentResponseTimes) < responseTimeWindow \div 2
    THEN FALSE
    ELSE LET currentAvg == getCurrentAverageResponseTime(s)
             t == s.responseTimeDegradationThreshold
             degradationThreshold == ScaleDuration(s.baselineResponseTime, <<t[2] + t[1], t[2]>>)
         IN  currentAvg > degradationThreshold

\* cleanOldForbiddenErrors that expunges nothing.
cleanOldForbiddenErrorsKeepAll(errors, now, window) == errors

\* cleanOldForbiddenErrors that clears an all-old list but never slices.
cleanOldForbiddenErrorsNoSlice(errors, now, window) ==
    IF Len(errors) > 0 /\ errors[Len(errors)] < now - window THEN <<>> ELSE errors

\* cleanOldForbiddenErrors that keeps an entry as old as the window.
cleanOldForbiddenErrorsAtCutoff(errors, now, window) ==
    LET cutoff == now - window
        after  == {i \in DOMAIN errors : errors[i] >= cutoff}
        start  == IF after = {} THEN 0
                  ELSE (CHOOSE i \in after : \A j \in after : i <= j) - 1
    IN  IF start > 0 THEN SubSeq(errors, start + 1, Len(errors)) ELSE errors

\* The Go slice is 0-based: start is the index of the first entry after the
\* cutoff, and stays 0 when there is none.
cleanOldForbiddenErrors(errors, now, window) ==
    LET cutoff == now - window
        after  == {i \in DOMAIN errors : errors[i] > cutoff}
        start  == IF after = {} THEN 0
                  ELSE (CHOOSE i \in after : \A j \in after : i <= j) - 1
    IN  IF start = 0 /\ Len(errors) > 0 /\ errors[Len(errors)] < cutoff
        THEN <<>>
        ELSE IF start > 0
             THEN SubSeq(errors, start + 1, Len(errors))
             ELSE errors

\* What one ShouldBackoff call returns, with the Manager it leaves behind
\* (m), whether it invoked the cancel function, and the branch it took.
Outcome(s, shouldBackoff, delay, err, invoked, path) ==
    [m |-> s, shouldBackoff |-> shouldBackoff, delay |-> delay, err |-> err,
     cancelInvoked |-> invoked, path |-> path]

\* ShouldBackoff, after its checks, that resets an active backoff on every
\* observation that is neither a server error nor degraded.
ShouldBackoffAfterForbiddenResetAny(s, statusCode, duration, now) ==
    LET s1 == IF statusCode = 403
              THEN [s EXCEPT !.forbiddenErrors =
                        cleanOldForbiddenErrors(Append(@, now), now, s.forbiddenErrorWindow)]
              ELSE s
    IN  IF statusCode = 403 /\ Len(s1.forbiddenErrors) >= s1.forbiddenErrorThreshold
        THEN Outcome([s1 EXCEPT !.cancelled = TRUE], FALSE, 0,
                     ErrThreshold(Len(s1.forbiddenErrors), s1.forbiddenErrorWindow),
                     s1.cancelFunc, "threshold")
        ELSE IF statusCode >= 500 /\ statusCode < 600
        THEN LET s2 == activateBackoff(s1)
             IN  Outcome(s2, TRUE, s2.currentDelay, NoError, FALSE, "server_error")
        ELSE LET s3 == trackResponseTime(s1, duration)
             IN  IF isResponseTimeDegraded(s3)
                 THEN LET s4 == activateBackoff(s3)
                      IN  Outcome(s4, TRUE, s4.currentDelay, NoError, FALSE, "degraded")
                 ELSE Outcome(resetBackoff(s3), FALSE, 0, NoError, FALSE, "normal")

\* ShouldBackoff without the check for an earlier cancellation.
ShouldBackoffAfterForbidden(s, statusCode, duration, now) ==
    LET s1 == IF statusCode = 403
              THEN [s EXCEPT !.forbiddenErrors =
                        cleanOldForbiddenErrors(Append(@, now), now, s.forbiddenErrorWindow)]
              ELSE s
    IN  IF statusCode = 403 /\ Len(s1.forbiddenErrors) >= s1.forbiddenErrorThreshold
        THEN Outcome([s1 EXCEPT !.cancelled = TRUE], FALSE, 0,
                     ErrThreshold(Len(s1.forbiddenErrors), s1.forbiddenErrorWindow),
                     s1.cancelFunc, "threshold")
        ELSE IF statusCode >= 500 /\ statusCode < 600
        \* return m.activateBackoff(), m.currentDelay, nil: the compiler makes
        \* the call before it loads the field, as TestShouldBackoff_ServerError
        \* pins (2s on the second 500).
        THEN LET s2 == activateBackoff(s1)
             IN  Outcome(s2, TRUE, s2.currentDelay, NoError, FALSE, "server_error")
        ELSE LET s3 == trackResponseTime(s1, duration)
             IN  IF isResponseTimeDegraded(s3)
                 THEN LET s4 == activateBackoff(s3)
                      IN  Outcome(s4, TRUE, s4.currentDelay, NoError, FALSE, "degraded")
                 ELSE IF statusCode >= 200 /\ statusCode < 400 /\ s3.backoffActive
                      THEN Outcome(resetBackoff(s3), FALSE, 0, NoError, FALSE, "normal")
                      ELSE Outcome(s3, FALSE, 0, NoError, FALSE, "normal")

ShouldBackoffNoCancelCheck(s, statusCode, duration, now) ==
    IF ~s.enabled
    THEN Outcome(s, FALSE, 0, NoError, FALSE, "disabled")
    ELSE ShouldBackoffAfterForbidden(s, statusCode, duration, now)

\* ShouldBackoff without the check of the enabled flag.
ShouldBackoffIgnoreEnabled(s, statusCode, duration, now) ==
    IF s.cancelled
    THEN Outcome(s, FALSE, 0, ErrAlreadyCancelled, FALSE, "cancelled")
    ELSE ShouldBackoffAfterForbidden(s, statusCode, duration, now)

\* ShouldBackoff that invokes the cancel function again on a 403 observed
\* after the cancellation.
ShouldBackoffCancelAgain(s, statusCode, duration, now) ==
    IF ~s.enabled
    THEN Outcome(s, FALSE, 0, NoError, FALSE, "disabled")
    ELSE IF s.cancelled
         THEN Outcome(s, FALSE, 0, ErrAlreadyCancelled,
                      s.cancelFunc /\ statusCode = 403, "cancelled")
         ELSE ShouldBackoffAfterForbidden(s, statusCode, duration, now)

\* ShouldBackoff that goes on tracking response times after the cancellation.
ShouldBackoffCancelledTracks(s, statusCode, duration, now) ==
    IF ~s.enabled
    THEN Outcome(s, FALSE, 0, NoError, FALSE, "disabled")
    ELSE IF s.cancelled
         THEN Outcome(trackResponseTime(s, duration), FALSE, 0, ErrAlreadyCancelled,
                      FALSE, "cancelled")
         ELSE ShouldBackoffAfterForbidden(s, statusCode, duration, now)

ShouldBackoff(s, statusCode, duration, now) ==
    IF ~s.enabled
    THEN Outcome(s, FALSE, 0, NoError, FALSE, "disabled")
    ELSE IF s.cancelled
         THEN Outcome(s, FALSE, 0, ErrAlreadyCancelled, FALSE, "cancelled")
         ELSE ShouldBackoffAfterForbidden(s, statusCode, duration, now)


----------------------------------------------------------------------------
(* package stats *)

\* The zero time.Time (IsZero); the clock starts at 0.
ZeroTime == -1

\* time.Hour in ticks: one tick is the time in which the limiter earns one
\* token, 1/requestRate of a second.
HourTicks(rate) == 3600 * rate

NewStats(hour) ==
    [ totalURLs     |-> 0,
      processed     |-> 0,
      successCount  |-> 0,
      errorCount    |-> 0,
      totalDuration |-> 0,
      minDuration   |-> hour,
      maxDuration   |-> 0,
      startTime     |-> ZeroTime,
      warmUpResults |-> <<>>,
      cacheResults  |-> <<>>,
      warmUpStart   |-> ZeroTime,
      warmUpEnd     |-> ZeroTime,
      verifyStart   |-> ZeroTime,
      verifyEnd     |-> ZeroTime ]

SetTotalURLs(st, total, now) ==
    [st EXCEPT !.totalURLs = total, !.startTime = now]

\* The lock each method takes on s.mu for the length of its body: Lock is
\* the exclusive lock, RLock the shared one.
NoLock == "none"
LockOf ==
    [ SetTotalURLs    |-> "Lock",
      AddResult       |-> "Lock",
      AddWarmUpResult |-> "Lock",
      AddCacheResult  |-> "Lock",
      GetProgress     |-> "RLock",
      GetFinalStats   |-> "RLock",
      GetCacheStats   |-> "RLock" ]

\* AddResult that never raises maxDuration.
AddResultNoMax(st, result) ==
    [st EXCEPT !.processed = @ + 1,
               !.totalDuration = @ + result.duration,
               !.successCount = IF result.success THEN @ + 1 ELSE @,
               !.errorCount = IF result.success THEN @ ELSE @ + 1,
               !.minDuration = IF result.duration < @ THEN result.duration ELSE @]

AddResult(st, result) ==
    [st EXCEPT !.processed = @ + 1,
               !.totalDuration = @ + result.duration,
               !.successCount = IF result.success THEN @ + 1 ELSE @,
               !.errorCount = IF result.success THEN @ ELSE @ + 1,
               !.minDuration = IF result.duration < @ THEN result.duration ELSE @,
               !.maxDuration = IF result.duration > @ THEN result.duration ELSE @]

\* AddWarmUpResult that also counts the result and its duration, as AddResult does.
AddWarmUpResultWithCounters(st, result, now) ==
    [st EXCEPT !.warmUpStart = IF @ = ZeroTime THEN now ELSE @,
               !.warmUpResults = Append(@, result),
               !.processed = @ + 1,
               !.totalDuration = @ + result.duration,
               !.successCount = IF result.success THEN @ + 1 ELSE @,
               !.errorCount = IF result.success THEN @ ELSE @ + 1,
               !.minDuration = IF result.duration < @ THEN result.duration ELSE @,
               !.maxDuration = IF result.duration > @ THEN result.duration ELSE @]

AddWarmUpResult(st, result, now) ==
    [st EXCEPT !.warmUpStart = IF @ = ZeroTime THEN now ELSE @,
               !.warmUpResults = Append(@, result),
               !.processed = @ + 1]

\* AddCacheResult that counts the result as processed, as AddWarmUpResult does.
AddCacheResultCounting(st, result, now) ==
    [st EXCEPT !.verifyStart = IF @ = ZeroTime THEN now ELSE @,
               !.cacheResults = Append(@, result),
               !.processed = @ + 1]

AddCacheResult(st, result, now) ==
    [st EXCEPT !.verifyStart = IF @ = ZeroTime THEN now ELSE @,
               !.cacheResults = Append(@, result)]

\* float64(n) / float64(d) * 100, kept as the fraction (n * 100) / d.
Percent(n, d) == [num |-> n * 100, den |-> d]
ZeroPercent == [num |-> 0, den |-> 1]

\* GetProgress: the fields computed from the counters and the start time.
GetProgress(st, now) ==
    [ processed       |-> st.processed,
      total           |-> st.totalURLs,
      percentage      |-> IF st.totalURLs > 0 THEN Percent(st.processed, st.totalURLs)
                          ELSE ZeroPercent,
      successRate     |-> IF st.processed > 0 THEN Percent(st.successCount, st.processed)
                          ELSE ZeroPercent,
      averageDuration |-> IF st.processed > 0 THEN st.totalDuration \div st.processed ELSE 0,
      elapsedTime     |-> now - st.startTime ]

GetFinalStats(st, hour) ==
    [ totalProcessed  |-> st.processed,
      totalSuccess    |-> st.successCount,
      totalErrors     |-> st.errorCount,
      successRate     |-> IF st.processed > 0 THEN Percent(st.successCount, st.processed)
                          ELSE ZeroPercent,
      averageDuration |-> IF st.processed > 0 THEN st.totalDuration \div st.processed ELSE 0,
      minDuration     |-> IF st.processed = 0 \/ st.minDuration = hour THEN 0
                          ELSE st.minDuration,
      maxDuration     |-> st.maxDuration,
      totalDuration   |-> st.totalDuration ]

\* GetCacheStats: the end times it marks.
MarkEndTimes(st, now) ==
    LET st1 == IF st.warmUpEnd # ZeroTime /\ st.verifyStart = ZeroTime
               THEN [st EXCEPT !.warmUpEnd = now] ELSE st
    IN  IF st1.verifyStart # ZeroTime /\ st1.verifyEnd = ZeroTime
        THEN [st1 EXCEPT !.verifyEnd = now] ELSE st1

\* GetCacheStats: the loop that counts hits and misses over a list of results.
RECURSIVE CountCacheStatus(_)
CountCacheStatus(results) ==
    IF results = <<>> THEN [hits |-> 0, misses |-> 0]
    ELSE LET rest == CountCacheStatus(Tail(results))
             cacheStatus == Head(results).cacheStatus
         IN  IF cacheStatus = "" THEN rest
             ELSE IF cacheStatus = "HIT" \/ cacheStatus = "hit"
                  THEN [rest EXCEPT !.hits = @ + 1]
                  ELSE [rest EXCEPT !.misses = @ + 1]

\* The report over given counts and the aggregator with its end times marked.
CacheReport(counts, st) ==
    [ cacheHits    |-> counts.hits,
      cacheMisses  |-> counts.misses,
      cacheHitRate |-> IF counts.hits + counts.misses > 0
                       THEN Percent(counts.hits, counts.hits + counts.misses)
                       ELSE ZeroPercent,
      warmUpTime   |-> IF st.warmUpStart # ZeroTime /\ st.warmUpEnd # ZeroTime
                       THEN st.warmUpEnd - st.warmUpStart ELSE 0,
      verifyTime   |-> IF st.verifyStart # ZeroTime /\ st.verifyEnd # ZeroTime
                       THEN st.verifyEnd - st.verifyStart ELSE 0 ]

\* GetCacheStats that counts the warm-up results as well.
GetCacheStatsAllResults(st, now) ==
    CacheReport(CountCacheStatus(st.warmUpResults \o st.cacheResults), MarkEndTimes(st, now))

\* GetCacheStats: the report it returns (the aggregator it leaves behind is
\* MarkEndTimes(st, now)).
GetCacheStats(st, now) ==
    CacheReport(CountCacheStatus(st.cacheResults), MarkEndTimes(st, now))

----------------------------------------------------------------------------
(* package parser *)

\* A URL string, by what url.Parse finds in it.
GoodURL == [scheme |-> "https", host |-> "example.com", path |-> "/page"]
IndexURL == [scheme |-> "https", host |-> "example.com", path |-> "/sitemap1.xml"]
FtpURL == [scheme |-> "ftp", host |-> "example.com", path |-> "/page"]
NoHostURL == [scheme |-> "http", host |-> "", path |-> "/page"]

\* ValidateURL: a scheme of http or https and a host.
ValidateURL(u) ==
    /\ u.scheme # ""
    /\ u.scheme \in {"http", "https"}
    /\ u.host # ""

\* strings.HasPrefix(line, "http://") || strings.HasPrefix(line, "https://").
HasHTTPPrefix(u) == u.scheme \in {"http", "https"}

\* The errors of a run: the chain of messages that %w wraps, outermost first;
\* the empty chain is nil.
NilError == <<>>
Wrap(msg, err) == <<msg>> \o err

\* A document is its root element and the <loc> of its <sitemap> or <url>
\* children; a plain-text document ("text") is its non-empty trimmed lines.
\* The lines of an XML document are markup: none begins with a scheme.
TextLines(data) == IF data.root = "text" THEN data.entries ELSE <<>>

\* parseXML: a sitemap index with entries, else a URL set with entries, else
\* the lines that begin with http:// or https://, else an error.
parseXML(data) ==
    IF data.root = "sitemapindex" /\ Len(data.entries) > 0
    THEN [urls |-> data.entries, err |-> NilError]
    ELSE IF data.root = "urlset" /\ Len(data.entries) > 0
    THEN [urls |-> data.entries, err |-> NilError]
    ELSE LET urls == SelectSeq(TextLines(data), HasHTTPPrefix)
         IN  IF Len(urls) > 0
             THEN [urls |-> urls, err |-> NilError]
             ELSE [urls |-> <<>>, err |-> <<"unable to parse sitemap format">>]

\* fetchAndParse: one GET of the sitemap URL (one call of p.client.Do, counted
\* in fetches), then parseXML of the body.
fetchAndParse(answer) ==
    IF ~answer.received
    THEN [urls |-> <<>>, err |-> <<"failed to fetch sitemap">>, fetches |-> 1]
    ELSE IF answer.statusCode # 200
    THEN [urls |-> <<>>, err |-> <<"unexpected status code">>, fetches |-> 1]
    ELSE LET r == parseXML(answer.data)
         IN  [urls |-> r.urls, err |-> r.err, fetches |-> 1]

\* ParseSitemap that fetches every sitemap an index names and returns the
\* pages of those, each child sitemap answering a URL set of one page.
ParseSitemapRecursive(answer) ==
    LET r == fetchAndParse(answer)
    IN  IF r.err # NilError
        THEN [urls |-> <<>>, err |-> Wrap("failed to fetch sitemap %s", r.err),
              fetches |-> r.fetches]
        ELSE IF answer.data.root = "sitemapindex"
        THEN [urls |-> [i \in 1..Len(r.urls) |->
                            [scheme |-> "https", host |-> "example.com", path |-> "/page"]],
              err |-> NilError, fetches |-> r.fetches + Len(r.urls)]
        ELSE r

\* ParseSitemap: one call of fetchAndParse; the URLs of the document as they
\* are, index entries included (both branches of the isSitemapIndex test
\* return urls).
ParseSitemap(answer) ==
    LET r == fetchAndParse(answer)
    IN  IF r.err # NilError
        THEN [urls |-> <<>>, err |-> Wrap("failed to fetch sitemap %s", r.err),
              fetches |-> r.fetches]
        ELSE r

----------------------------------------------------------------------------
(* package crawler *)

Phases == {"standard", "warmup", "verify"}

\* What the server (or the network) answers to one GET.
TransportError == [received |-> FALSE, statusCode |-> 0, cacheHeader |-> ""]
Responses ==
    { TransportError,
      [received |-> TRUE, statusCode |-> 200, cacheHeader |-> "HIT"],
      [received |-> TRUE, statusCode |-> 403, cacheHeader |-> "MISS"] }

\* crawlURL that takes every status below 400 for a success.
crawlURLBelow400(url, response, start, now, cacheMode) ==
    IF ~response.received
    THEN [url |-> url, success |-> FALSE, statusCode |-> 0, error |-> TRUE,
          duration |-> now - start, cacheStatus |-> ""]
    ELSE [url |-> url,
          success |-> response.statusCode < 400,
          statusCode |-> response.statusCode, error |-> FALSE,
          duration |-> now - start,
          cacheStatus |-> IF cacheMode THEN response.cacheHeader ELSE ""]

\* crawlURL: the Result built from the answer; duration is time.Since(start).
\* error tells whether the Error text is set.  A request that cannot be built
\* or sent is an answer not received.
crawlURL(url, response, start, now, cacheMode) ==
    IF ~response.received
    THEN [url |-> url, success |-> FALSE, statusCode |-> 0, error |-> TRUE,
          duration |-> now - start, cacheStatus |-> ""]
    ELSE [url |-> url,
          success |-> response.statusCode >= 200 /\ response.statusCode < 400,
          statusCode |-> response.statusCode, error |-> FALSE,
          duration |-> now - start,
          cacheStatus |-> IF cacheMode THEN response.cacheHeader ELSE ""]

\* rate.NewLimiter(rate.Limit(r), r): a bucket of r tokens, full at creation.
\* granted, elapsed and wasted count the tokens handed out, the ticks since
\* creation and the tokens earned while the bucket was full.
NewLimiter(r) ==
    [live |-> TRUE, tokens |-> r, burst |-> r, granted |-> 0, elapsed |-> 0, wasted |-> 0]
NoLimiter ==
    [live |-> FALSE, tokens |-> 0, burst |-> 0, granted |-> 0, elapsed |-> 0, wasted |-> 0]

\* One tick of a live limiter: one token earned, kept unless the bucket is full.
Refill(l) ==
    IF ~l.live THEN l
    ELSE [l EXCEPT !.elapsed = @ + 1,
                   !.tokens = IF @ < l.burst THEN @ + 1 ELSE @,
                   !.wasted = IF l.tokens < l.burst THEN @ ELSE @ + 1]

\* A limiter of its own for every worker.
WorkerLimiterOwn(p, i) == <<p, i>>

\* The limiter a phase hands to its worker i: the one it created.
WorkerLimiter(p, i) == <<p, 0>>

LimiterIds == Phases \X (0..MaxWorkers)

\* A worker that leaves its loop after a failed fetch.
NextAfterResultStopOnFailure(result) == IF result.success THEN "recv" ELSE "done"

\* Where the worker goes after sending a result: back to the range loop.
NextAfterResult(result) == "recv"

\* A collection loop that ends as soon as the channel is found empty.
RangeEndsWhenEmpty(ch) == ch.buf = <<>>

\* for result := range resultChan ends when the channel is closed and drained.
RangeEnds(ch) == ch.closed /\ ch.buf = <<>>

\* filterValidURLs that keeps every URL.
filterValidURLsKeepAll(urls) == urls

\* filterValidURLs: the URLs that ValidateURL accepts, in order.
filterValidURLs(urls) == SelectSeq(urls, ValidateURL)

ErrNoValidURLs == <<"no valid URLs found in sitemap">>

\* Run up to the choice of the mode: the URLs to crawl, or the error returned.
ResolveTargets(answer) ==
    LET r == ParseSitemap(answer)
        validURLs == filterValidURLs(r.urls)
    IN  IF r.err # NilError
        THEN [urls |-> <<>>, err |-> Wrap("failed to parse sitemap", r.err)]
        ELSE IF Len(validURLs) = 0
        THEN [urls |-> <<>>, err |-> ErrNoValidURLs]
        ELSE [urls |-> validURLs, err |-> NilError]

\* What the GET of the sitemap URL answers.
NoDocument == [root |-> "other", entries |-> <<>>]
NoAnswer == [received |-> FALSE, statusCode |-> 0, data |-> NoDocument]
Served(data) == [received |-> TRUE, statusCode |-> 200, data |-> data]
GoodList(n) == IF n = 0 THEN <<>> ELSE [i \in 1..n |-> GoodURL]
Documents ==
    {[root |-> "urlset", entries |-> GoodList(n)] : n \in 0..MaxURLs}
    \cup { [root |-> "urlset", entries |-> <<FtpURL>>],
           [root |-> "urlset", entries |-> <<GoodURL, NoHostURL>>],
           [root |-> "sitemapindex", entries |-> <<>>],
           [root |-> "sitemapindex", entries |-> <<IndexURL>>],
           [root |-> "text", entries |-> <<FtpURL>>],
           [root |-> "text", entries |-> <<NoHostURL>>],
           NoDocument }
SitemapAnswers ==
    {NoAnswer, [received |-> TRUE, statusCode |-> 404, data |-> NoDocument]}
    \cup {Served(data) : data \in Documents}

\* No call of crawlURL on its own.
NoResult == [url |-> 0, success |-> FALSE, statusCode |-> 0, error |-> FALSE,
             duration |-> 0, cacheStatus |-> ""]
NoFetch == [url |-> 0, cacheMode |-> FALSE, start |-> -1, done |-> FALSE,
            response |-> TransportError, result |-> NoResult]

\* No progress reporter: no context made, no goroutine started, nothing printed.
NoReporter == [quiet |-> FALSE, ctx |-> "none", at |-> "none", tick |-> FALSE, ticks |-> 0,
               snapshots |-> 0, finalPrinted |-> FALSE]

IdleWorker == [at |-> "idle", url |-> 0, start |-> 0]
NoChan == [made |-> FALSE, buf |-> <<>>, closed |-> FALSE, sent |-> 0]
MakeChan == [made |-> TRUE, buf |-> <<>>, closed |-> FALSE, sent |-> 0]


CrawlIdle ==
    /\ cfg = [cacheVerificationMode |-> FALSE, maxWorkers |-> 1, requestRate |-> 1,
              nURLs |-> 1, forbiddenErrorThreshold |-> 1, forbiddenErrorWindow |-> 1]
    /\ seed = NoAnswer
    /\ pc = [at |-> "Run", phase |-> "none"]
    /\ limiters = [id \in LimiterIds |-> NoLimiter]
    /\ urlChan = [p \in Phases |-> NoChan]
    /\ workers = [p \in Phases |-> [i \in 1..MaxWorkers |-> IdleWorker]]
    /\ resultChan = [p \in Phases |-> NoChan]
    /\ wg = [p \in Phases |-> 0]
    /\ stats = NewStats(HourTicks(1))
    /\ statsLock = NoLock
    /\ issued = [p \in Phases |-> 0]
    /\ recorded = [p \in Phases |-> [u \in 1..MaxTargets |-> 0]]
    /\ returned = [p \in Phases |-> FALSE]
    /\ endedAt = [p \in Phases |-> ZeroTime]
    /\ seen403 = <<>>
    /\ cancelDue = FALSE
    /\ panicked = FALSE
    /\ runErr = NilError
    /\ fetch = NoFetch
    /\ reporter = NoReporter

----------------------------------------------------------------------------
(* SpecBackoff: one Manager fed a sequence of observations *)

\* Validated configurations (validateBackoffDelays, validateBackoffThresholds):
\* 0 < initialDelay <= maxDelay, multiplier > 1, 0 < degradation <= 1.
DelayProfiles ==
    { [initialDelay |-> 1, maxDelay |-> 5, multiplier |-> <<2, 1>>],
      [initialDelay |-> 2, maxDelay |-> 7, multiplier |-> <<3, 2>>] }

\* The Manager after n calls ShouldBackoff(200, d) at instant 0.
RECURSIVE Warmed(_, _, _)
Warmed(s, n, d) ==
    IF n = 0 THEN s ELSE ShouldBackoff(Warmed(s, n - 1, d), 200, d, 0).m

\* The observations a Manager has had when the model takes it up: none, one
\* short of half the ring (of duration 1, or 0 as in
\* TestResponseTimeTracking_EdgeCases), one short of the full ring.
WarmUps ==
    { [n |-> 0, d |-> 1],
      [n |-> (responseTimeWindow \div 2) - 1, d |-> 1],
      [n |-> (responseTimeWindow \div 2) - 1, d |-> 0],
      [n |-> responseTimeWindow - 1, d |-> 1] }

NoObservation ==
    [status |-> 0, tracked |-> -1, preCancelled |-> FALSE, preActive |-> FALSE,
     preDelay |-> 0, recent403 |-> 0, path |-> "none"]

NoReturn == [shouldBackoff |-> FALSE, delay |-> 0, err |-> NoError]

InitBackoff ==
    /\ \E enabled \in BOOLEAN, p \in DelayProfiles, w \in WarmUps,
          threshold \in 1..MaxThreshold, window \in 1..MaxWindow :
          mgr = Warmed(NewManager(enabled, p.initialDelay, p.maxDelay, p.multiplier,
                                  <<1, 2>>, threshold, window), w.n, w.d)
    /\ clock = 0
    /\ ret = NoReturn
    /\ last = NoObservation
    /\ all403 = <<>>
    /\ streak = 0
    /\ cancelErr = NoError
    /\ cancelCalls = 0
    /\ nObs = 0
    /\ CrawlIdle

\* How many of the 403 instants in history lie within the window ending at now.
Recent403(history, now, window) ==
    Cardinality({i \in DOMAIN history : now - history[i] < window})

\* SetCancelFunc, called before the first observation.
SetCancelFunc ==
    /\ nObs = 0
    /\ ~mgr.cancelFunc
    /\ mgr' = [mgr EXCEPT !.cancelFunc = TRUE]
    /\ UNCHANGED <<clock, ret, last, all403, streak, cancelErr, cancelCalls, nObs>>
    /\ UNCHANGED crawlVars

\* One call ShouldBackoff(statusCode, duration) at the current instant.
Observe(statusCode, duration) ==
    /\ nObs < MaxObs
    /\ LET r == ShouldBackoff(mgr, statusCode, duration, clock)
           processed == r.path \notin {"disabled", "cancelled"}
       IN  /\ mgr' = r.m
           /\ ret' = [shouldBackoff |-> r.shouldBackoff, delay |-> r.delay, err |-> r.err]
           /\ all403' = IF statusCode = 403 THEN Append(all403, clock) ELSE all403
           /\ last' = [status |-> statusCode,
                       tracked |-> IF r.path \in {"normal", "degraded"} THEN duration
                                   ELSE -1,
                       preCancelled |-> mgr.cancelled,
                       preActive |-> mgr.backoffActive, preDelay |-> mgr.currentDelay,
                       recent403 |-> Recent403(all403', clock, mgr.forbiddenErrorWindow),
                       path |-> r.path]
           /\ streak' = IF processed /\ r.path = "server_error"
                        THEN IF ~mgr.backoffActive THEN 1
                             ELSE IF streak > 0 THEN streak + 1 ELSE 0
                        ELSE 0
           /\ cancelErr' = IF r.path = "threshold" THEN r.err ELSE cancelErr
           /\ cancelCalls' = IF r.cancelInvoked THEN cancelCalls + 1 ELSE cancelCalls
    /\ nObs' = nObs + 1
    /\ UNCHANGED <<clock, crawlVars>>

\* Time passes between two observations.
Tick ==
    /\ clock < MaxClock
    /\ clock' = clock + 1
    /\ UNCHANGED <<mgr, ret, last, all403, streak, cancelErr, cancelCalls, nObs>>
    /\ UNCHANGED crawlVars

NextBackoff ==
    \/ SetCancelFunc
    \/ \E statusCode \in Statuses, duration \in Durations : Observe(statusCode, duration)
    \/ Tick

SpecBackoff == InitBackoff /\ [][NextBackoff]_vars

----------------------------------------------------------------------------
(* Spec: one run of Crawler.Run on what the sitemap URL answers *)

\* The crawler constructs no Manager: the Manager's variables keep the
\* values of a fresh one.
BackoffIdle ==
    /\ mgr = NewManager(TRUE, 1, 5, <<2, 1>>, <<1, 2>>, 1, 1)
    /\ ret = NoReturn
    /\ last = NoObservation
    /\ all403 = <<>>
    /\ streak = 0
    /\ cancelErr = NoError
    /\ cancelCalls = 0
    /\ nObs = 0

\* The state in which Run is called, for a mode, a worker count, a rate, a
\* 403 threshold and an answer of the sitemap URL drawn from the given sets;
\* nURLs is the number of URLs Run will crawl.
InitWith(modes, workerCounts, rates, thresholds, answers) ==
    /\ BackoffIdle
    /\ clock = 0
    /\ seed \in answers
    /\ \E cache \in modes, w \in workerCounts, r \in rates, t \in thresholds :
          cfg = [cacheVerificationMode |-> cache, maxWorkers |-> w, requestRate |-> r,
                 nURLs |-> Len(ResolveTargets(seed).urls),
                 forbiddenErrorThreshold |-> t,
                 forbiddenErrorWindow |-> MaxWindow]
    /\ pc = [at |-> "Run", phase |-> "none"]
    /\ limiters = [id \in LimiterIds |-> NoLimiter]
    /\ urlChan = [p \in Phases |-> NoChan]
    /\ workers = [p \in Phases |-> [i \in 1..MaxWorkers |-> IdleWorker]]
    /\ resultChan = [p \in Phases |-> NoChan]
    /\ wg = [p \in Phases |-> 0]
    /\ stats = NewStats(HourTicks(cfg.requestRate))
    /\ statsLock = NoLock
    /\ issued = [p \in Phases |-> 0]
    /\ recorded = [p \in Phases |-> [u \in 1..MaxTargets |-> 0]]
    /\ returned = [p \in Phases |-> FALSE]
    /\ endedAt = [p \in Phases |-> ZeroTime]
    /\ seen403 = <<>>
    /\ cancelDue = FALSE
    /\ panicked = FALSE
    /\ runErr = NilError
    /\ fetch = NoFetch
    /\ reporter = NoReporter

Init == InitWith(BOOLEAN, 1..MaxWorkers, 1..MaxRate, 1..MaxThreshold, SitemapAnswers)

\* Run, up to the choice of the mode: ParseSitemap, filterValidURLs and the
\* return of their errors, else SetTotalURLs.
Run ==
    /\ pc.at = "Run"
    /\ LET r == ResolveTargets(seed)
       IN  IF r.err # NilError
           THEN /\ runErr' = r.err
                /\ pc' = [at |-> "done", phase |-> "none"]
                /\ UNCHANGED <<stats, statsLock>>
           ELSE /\ stats' = SetTotalURLs(stats, Len(r.urls), clock)
                /\ statsLock' = LockOf.SetTotalURLs
                /\ pc' = [at |-> "start",
                          phase |-> IF cfg.cacheVerificationMode THEN "warmup"
                                    ELSE "standard"]
                /\ UNCHANGED runErr
    /\ UNCHANGED <<backoffVars, clock, cfg, seed, limiters, urlChan, workers, resultChan, wg,
                   issued, recorded, returned, endedAt, seen403, cancelDue, panicked, fetch, reporter>>

\* runStandardCrawl, warmUpCache, verifyCache up to the collection loop: the
\* limiter, the channels, wg.Add(1) and go c.worker for each worker, the
\* feeder and the closer.
StartPhase(p) ==
    /\ pc = [at |-> "start", phase |-> p]
    /\ limiters' = [id \in LimiterIds |->
                        IF id \in {WorkerLimiter(p, i) : i \in 1..cfg.maxWorkers}
                        THEN NewLimiter(cfg.requestRate)
                        ELSE limiters[id]]
    /\ urlChan' = [urlChan EXCEPT ![p] = MakeChan]
    /\ resultChan' = [resultChan EXCEPT ![p] = MakeChan]
    /\ workers' = [workers EXCEPT ![p] =
                       [i \in 1..MaxWorkers |->
                            IF i <= cfg.maxWorkers
                            THEN [at |-> "recv", url |-> 0, start |-> 0]
                            ELSE IdleWorker]]
    /\ wg' = [wg EXCEPT ![p] = cfg.maxWorkers]
    /\ pc' = [at |-> "collect", phase |-> p]
    /\ UNCHANGED <<backoffVars, clock, cfg, seed, stats, statsLock, issued, recorded, returned, endedAt, seen403,
                   cancelDue, panicked, runErr, fetch, reporter>>

\* The feeder: urlChan <- url.
FeedURL(p) ==
    /\ urlChan[p].made
    /\ ~urlChan[p].closed
    /\ urlChan[p].sent < cfg.nURLs
    /\ Len(urlChan[p].buf) < cfg.nURLs
    /\ urlChan' = [urlChan EXCEPT ![p].buf = Append(@, urlChan[p].sent + 1),
                                  ![p].sent = @ + 1]
    /\ UNCHANGED <<backoffVars, clock, cfg, seed, pc, limiters, workers, resultChan, wg, stats, statsLock,
                   issued, recorded, returned, endedAt, seen403, cancelDue, panicked, runErr, fetch, reporter>>

\* The feeder: defer close(urlChan).
CloseURLChan(p) ==
    /\ urlChan[p].made
    /\ ~urlChan[p].closed
    /\ urlChan[p].sent = cfg.nURLs
    /\ urlChan' = [urlChan EXCEPT ![p].closed = TRUE]
    /\ UNCHANGED <<backoffVars, clock, cfg, seed, pc, limiters, workers, resultChan, wg, stats, statsLock,
                   issued, recorded, returned, endedAt, seen403, cancelDue, panicked, runErr, fetch, reporter>>

\* A worker that takes a URL and goes on to the request without limiter.Wait.
WorkerReceiveNoWait(p, i) ==
    /\ workers[p][i].at = "recv"
    /\ urlChan[p].buf # <<>>
    /\ workers' = [workers EXCEPT ![p][i] =
                       [at |-> "crawl", url |-> Head(urlChan[p].buf), start |-> 0]]
    /\ urlChan' = [urlChan EXCEPT ![p].buf = Tail(@)]
    /\ UNCHANGED <<backoffVars, clock, cfg, seed, pc, limiters, resultChan, wg, stats,
                   statsLock, issued, recorded, returned, endedAt, seen403, cancelDue,
                   panicked, runErr, fetch, reporter>>

\* worker: for url := range urlChan receives a URL.
WorkerReceive(p, i) ==
    /\ workers[p][i].at = "recv"
    /\ urlChan[p].buf # <<>>
    /\ workers' = [workers EXCEPT ![p][i] =
                       [at |-> "wait", url |-> Head(urlChan[p].buf), start |-> 0]]
    /\ urlChan' = [urlChan EXCEPT ![p].buf = Tail(@)]
    /\ UNCHANGED <<backoffVars, clock, cfg, seed, pc, limiters, resultChan, wg, stats, statsLock, issued,
                   recorded, returned, endedAt, seen403, cancelDue, panicked, runErr, fetch, reporter>>

\* A worker that returns without wg.Done().
WorkerExitNoDone(p, i) ==
    /\ workers[p][i].at = "recv"
    /\ urlChan[p].buf = <<>>
    /\ urlChan[p].closed
    /\ workers' = [workers EXCEPT ![p][i].at = "done"]
    /\ UNCHANGED <<backoffVars, clock, cfg, seed, pc, limiters, urlChan, resultChan, wg, stats,
                   statsLock, issued, recorded, returned, endedAt, seen403, cancelDue,
                   panicked, runErr, fetch, reporter>>

\* worker: the range loop ends on a closed, drained channel; defer wg.Done().
WorkerExit(p, i) ==
    /\ workers[p][i].at = "recv"
    /\ urlChan[p].buf = <<>>
    /\ urlChan[p].closed
    /\ workers' = [workers EXCEPT ![p][i].at = "done"]
    /\ wg' = [wg EXCEPT ![p] = @ - 1]
    /\ UNCHANGED <<backoffVars, clock, cfg, seed, pc, limiters, urlChan, resultChan, stats, statsLock,
                   issued, recorded, returned, endedAt, seen403, cancelDue, panicked, runErr, fetch, reporter>>

\* worker: limiter.Wait(context.Background()) returns with a token.  The
\* context is never done and 1 <= burst, so Wait never returns an error.
WorkerAcquire(p, i) ==
    /\ workers[p][i].at = "wait"
    /\ LET id == WorkerLimiter(p, i)
       IN  /\ limiters[id].live
           /\ limiters[id].tokens > 0
           /\ limiters' = [limiters EXCEPT ![id].tokens = @ - 1, ![id].granted = @ + 1]
    /\ workers' = [workers EXCEPT ![p][i].at = "crawl"]
    /\ UNCHANGED <<backoffVars, clock, cfg, seed, pc, urlChan, resultChan, wg, stats, statsLock, issued,
                   recorded, returned, endedAt, seen403, cancelDue, panicked, runErr, fetch, reporter>>

\* crawlURL: start := time.Now(), the request is built and c.client.Do sends it.
\* The URLs of the list parse, so http.NewRequest returns no error.
WorkerRequest(p, i) ==
    /\ workers[p][i].at = "crawl"
    /\ workers' = [workers EXCEPT ![p][i].at = "fetch", ![p][i].start = clock]
    /\ issued' = [issued EXCEPT ![p] = @ + 1]
    /\ UNCHANGED <<backoffVars, clock, cfg, seed, pc, limiters, urlChan, resultChan, wg, stats, statsLock,
                   recorded, returned, endedAt, seen403, cancelDue, panicked, runErr, fetch, reporter>>

\* crawlURL returns and worker sends the result: resultChan <- result.
WorkerResponse(p, i, response) ==
    /\ workers[p][i].at = "fetch"
    /\ LET w == workers[p][i]
           result == crawlURL(w.url, response, w.start, clock, cfg.cacheVerificationMode)
           next == NextAfterResult(result)
       IN  /\ IF resultChan[p].closed
              THEN /\ panicked' = TRUE
                   /\ UNCHANGED resultChan
              ELSE /\ Len(resultChan[p].buf) < cfg.nURLs
                   /\ resultChan' = [resultChan EXCEPT ![p].buf = Append(@, result)]
                   /\ UNCHANGED panicked
           /\ workers' = [workers EXCEPT ![p][i] = [at |-> next, url |-> 0, start |-> 0]]
           /\ wg' = IF next = "done" THEN [wg EXCEPT ![p] = @ - 1] ELSE wg
           /\ seen403' = IF result.statusCode = 403 THEN Append(seen403, clock) ELSE seen403
           /\ cancelDue' = \/ cancelDue
                           \/ /\ result.statusCode = 403
                              /\ Recent403(seen403', clock, cfg.forbiddenErrorWindow)
                                     >= cfg.forbiddenErrorThreshold
    /\ UNCHANGED <<backoffVars, clock, cfg, seed, pc, limiters, urlChan, stats, statsLock, issued,
                   recorded, returned, endedAt, runErr, fetch, reporter>>

\* A closer that closes the result channel without wg.Wait().
CloseResultsNoWait(p) ==
    /\ resultChan[p].made
    /\ ~resultChan[p].closed
    /\ resultChan' = [resultChan EXCEPT ![p].closed = TRUE]
    /\ UNCHANGED <<backoffVars, clock, cfg, seed, pc, limiters, urlChan, workers, wg, stats,
                   statsLock, issued, recorded, returned, endedAt, seen403, cancelDue,
                   panicked, runErr, fetch, reporter>>

\* The closer: wg.Wait(); close(resultChan).
CloseResults(p) ==
    /\ resultChan[p].made
    /\ ~resultChan[p].closed
    /\ wg[p] = 0
    /\ resultChan' = [resultChan EXCEPT ![p].closed = TRUE]
    /\ UNCHANGED <<backoffVars, clock, cfg, seed, pc, limiters, urlChan, workers, wg, stats, statsLock,
                   issued, recorded, returned, endedAt, seen403, cancelDue, panicked, runErr, fetch, reporter>>

\* The collection loop: for result := range resultChan { c.stats.Add...(result) }.
Collect(p) ==
    /\ pc = [at |-> "collect", phase |-> p]
    /\ resultChan[p].buf # <<>>
    /\ LET result == Head(resultChan[p].buf)
       IN  /\ stats' = CASE p = "standard" -> AddResult(stats, result)
                         [] p = "warmup"   -> AddWarmUpResult(stats, result, clock)
                         [] p = "verify"   -> AddCacheResult(stats, result, clock)
           /\ statsLock' = CASE p = "standard" -> LockOf.AddResult
                             [] p = "warmup"   -> LockOf.AddWarmUpResult
                             [] p = "verify"   -> LockOf.AddCacheResult
           /\ recorded' = [recorded EXCEPT ![p][result.url] = @ + 1]
    /\ resultChan' = [resultChan EXCEPT ![p].buf = Tail(@)]
    /\ UNCHANGED <<backoffVars, clock, cfg, seed, pc, limiters, urlChan, workers, wg, issued,
                   returned, endedAt, seen403, cancelDue, panicked, runErr, fetch, reporter>>

\* The collection loop ends and the phase function returns: runStandardCrawl
\* prints the final stats, runWithCacheVerification goes on with verifyCache
\* and, after it, prints the cache stats.
PhaseReturn(p) ==
    /\ pc = [at |-> "collect", phase |-> p]
    /\ RangeEnds(resultChan[p])
    /\ returned' = [returned EXCEPT ![p] = TRUE]
    /\ endedAt' = [endedAt EXCEPT ![p] = clock]
    /\ pc' = IF p = "warmup" THEN [at |-> "start", phase |-> "verify"]
             ELSE [at |-> "done", phase |-> p]
    /\ stats' = IF p = "verify" THEN MarkEndTimes(stats, clock) ELSE stats
    /\ statsLock' = CASE p = "standard" -> LockOf.GetFinalStats
                       [] p = "warmup"   -> statsLock
                       [] p = "verify"   -> LockOf.GetCacheStats
    /\ UNCHANGED <<backoffVars, clock, cfg, seed, limiters, urlChan, workers, resultChan, wg,
                   issued, recorded, seen403, cancelDue, panicked, runErr, fetch, reporter>>

\* One tick of time: every live limiter earns a token.
TimePasses ==
    /\ pc.at # "done"
    /\ clock < MaxClock
    /\ clock' = clock + 1
    /\ limiters' = [id \in LimiterIds |-> Refill(limiters[id])]
    /\ UNCHANGED <<backoffVars, cfg, seed, pc, urlChan, workers, resultChan, wg, stats, statsLock, issued,
                   recorded, returned, endedAt, seen403, cancelDue, panicked, runErr, fetch, reporter>>

Next ==
    \/ Run
    \/ \E p \in Phases : StartPhase(p)
    \/ \E p \in Phases : FeedURL(p)
    \/ \E p \in Phases : CloseURLChan(p)
    \/ \E p \in Phases, i \in 1..MaxWorkers : WorkerReceive(p, i)
    \/ \E p \in Phases, i \in 1..MaxWorkers : WorkerExit(p, i)
    \/ \E p \in Phases, i \in 1..MaxWorkers : WorkerAcquire(p, i)
    \/ \E p \in Phases, i \in 1..MaxWorkers : WorkerRequest(p, i)
    \/ \E p \in Phases, i \in 1..MaxWorkers, response \in Responses :
           WorkerResponse(p, i, response)
    \/ \E p \in Phases : CloseResults(p)
    \/ \E p \in Phases : Collect(p)
    \/ \E p \in Phases : PhaseReturn(p)
    \/ TimePasses

Spec == Init /\ [][Next]_vars

----------------------------------------------------------------------------
(* SpecBurst: a standard crawl of more URLs than the bucket holds tokens *)

InitBurst ==
    InitWith({FALSE}, 1..MaxWorkers, {BurstRate}, {MaxThreshold},
             {Served([root |-> "urlset", entries |-> GoodList(BurstRate + 1)])})

SpecBurst == InitBurst /\ [][Next]_vars

----------------------------------------------------------------------------
(* SpecLive: the run under fair scheduling, time passing when it is awaited *)

\* limiter.Wait sleeps until the next token is due: a tick of time passes
\* while a worker waits at an empty bucket.
TimePassesWhileWaiting ==
    /\ \E p \in Phases, i \in 1..MaxWorkers :
          /\ workers[p][i].at = "wait"
          /\ limiters[WorkerLimiter(p, i)].tokens = 0
    /\ clock' = clock + 1
    /\ limiters' = [id \in LimiterIds |-> Refill(limiters[id])]
    /\ UNCHANGED <<backoffVars, cfg, seed, pc, urlChan, workers, resultChan, wg, stats,
                   statsLock, issued, recorded, returned, endedAt, seen403, cancelDue,
                   panicked, runErr, fetch, reporter>>

NextLive ==
    \/ Run
    \/ \E p \in Phases : StartPhase(p)
    \/ \E p \in Phases : FeedURL(p)
    \/ \E p \in Phases : CloseURLChan(p)
    \/ \E p \in Phases, i \in 1..MaxWorkers : WorkerReceive(p, i)
    \/ \E p \in Phases, i \in 1..MaxWorkers : WorkerExit(p, i)
    \/ \E p \in Phases, i \in 1..MaxWorkers : WorkerAcquire(p, i)
    \/ \E p \in Phases, i \in 1..MaxWorkers : WorkerRequest(p, i)
    \/ \E p \in Phases, i \in 1..MaxWorkers, response \in Responses :
           WorkerResponse(p, i, response)
    \/ \E p \in Phases : CloseResults(p)
    \/ \E p \in Phases : Collect(p)
    \/ \E p \in Phases : PhaseReturn(p)
    \/ TimePassesWhileWaiting

\* The Go scheduler runs a goroutine whenever one can take a step, a GET is
\* answered or times out (http.Client.Timeout), and time passes: the run
\* does not stop while a step is possible.
Fairness == WF_vars(NextLive)

\* Every mode, worker count and rate; the URL sets of 0 to MaxURLs valid URLs.
InitLive ==
    InitWith(BOOLEAN, 1..MaxWorkers, 1..MaxRate, {MaxThreshold},
             {Served([root |-> "urlset", entries |-> GoodList(n)]) : n \in 0..MaxURLs})

SpecLive == InitLive /\ [][NextLive]_vars /\ Fairness

----------------------------------------------------------------------------
(* SpecStats: the aggregator of one run, fed the results of the run's mode *)

\* Answers and durations of the results fed to the aggregator.
StatResponses ==
    { TransportError,
      [received |-> TRUE, statusCode |-> 200, cacheHeader |-> "HIT"],
      [received |-> TRUE, statusCode |-> 200, cacheHeader |-> "hit"],
      [received |-> TRUE, statusCode |-> 200, cacheHeader |-> "MISS"],
      [received |-> TRUE, statusCode |-> 200, cacheHeader |-> ""],
      [received |-> TRUE, statusCode |-> 403, cacheHeader |-> "Hit"] }
WarmUpResponses ==
    { TransportError, [received |-> TRUE, statusCode |-> 200, cacheHeader |-> "HIT"] }
StatDurations == {0, 1, 3, HourTicks(1), 2 * HourTicks(1)}

\* No phase has started: every variable of the engine but cfg and stats.
EngineIdle ==
    /\ pc = [at |-> "Run", phase |-> "none"]
    /\ limiters = [id \in LimiterIds |-> NoLimiter]
    /\ urlChan = [p \in Phases |-> NoChan]
    /\ workers = [p \in Phases |-> [i \in 1..MaxWorkers |-> IdleWorker]]
    /\ resultChan = [p \in Phases |-> NoChan]
    /\ wg = [p \in Phases |-> 0]
    /\ issued = [p \in Phases |-> 0]
    /\ recorded = [p \in Phases |-> [u \in 1..MaxTargets |-> 0]]
    /\ returned = [p \in Phases |-> FALSE]
    /\ endedAt = [p \in Phases |-> ZeroTime]
    /\ seen403 = <<>>
    /\ cancelDue = FALSE
    /\ panicked = FALSE
    /\ runErr = NilError
    /\ fetch = NoFetch
    /\ reporter = NoReporter

engineVars == <<cfg, seed, pc, limiters, urlChan, workers, resultChan, wg, issued, recorded,
                returned, endedAt, seen403, cancelDue, panicked, runErr, fetch, reporter>>

InitStats ==
    /\ BackoffIdle
    /\ clock = 0
    /\ \E cache \in BOOLEAN, n \in 1..MaxResults :
          cfg = [cacheVerificationMode |-> cache, maxWorkers |-> 1, requestRate |-> 1,
                 nURLs |-> n, forbiddenErrorThreshold |-> 1, forbiddenErrorWindow |-> 1]
    /\ seed = Served([root |-> "urlset", entries |-> GoodList(cfg.nURLs)])
    /\ stats = NewStats(HourTicks(cfg.requestRate))
    /\ statsLock = NoLock
    /\ EngineIdle

\* Run: c.stats.SetTotalURLs(len(validURLs)), before any result.
StatsSetTotalURLs ==
    /\ stats.startTime = ZeroTime
    /\ stats' = SetTotalURLs(stats, cfg.nURLs, clock)
    /\ statsLock' = LockOf.SetTotalURLs
    /\ UNCHANGED <<backoffVars, clock, engineVars>>

\* runStandardCrawl: c.stats.AddResult(result), once per URL.
StatsAddResult(response, duration) ==
    /\ ~cfg.cacheVerificationMode
    /\ stats.startTime # ZeroTime
    /\ stats.processed < cfg.nURLs
    /\ stats' = AddResult(stats, crawlURL(stats.processed + 1, response, 0, duration, FALSE))
    /\ statsLock' = LockOf.AddResult
    /\ UNCHANGED <<backoffVars, clock, engineVars>>

\* warmUpCache: c.stats.AddWarmUpResult(result), once per URL.
StatsAddWarmUpResult(response) ==
    /\ cfg.cacheVerificationMode
    /\ stats.startTime # ZeroTime
    /\ Len(stats.warmUpResults) < cfg.nURLs
    /\ stats' = AddWarmUpResult(
                    stats, crawlURL(Len(stats.warmUpResults) + 1, response, 0, 1, TRUE), clock)
    /\ statsLock' = LockOf.AddWarmUpResult
    /\ UNCHANGED <<backoffVars, clock, engineVars>>

\* verifyCache, after warmUpCache returned: c.stats.AddCacheResult(result).
StatsAddCacheResult(response) ==
    /\ cfg.cacheVerificationMode
    /\ Len(stats.warmUpResults) = cfg.nURLs
    /\ Len(stats.cacheResults) < cfg.nURLs
    /\ stats' = AddCacheResult(
                    stats, crawlURL(Len(stats.cacheResults) + 1, response, 0, 1, TRUE), clock)
    /\ statsLock' = LockOf.AddCacheResult
    /\ UNCHANGED <<backoffVars, clock, engineVars>>

\* printCacheStats, after verifyCache returned: c.stats.GetCacheStats().
StatsGetCacheStats ==
    /\ cfg.cacheVerificationMode
    /\ Len(stats.cacheResults) = cfg.nURLs
    /\ stats' = MarkEndTimes(stats, clock)
    /\ statsLock' = LockOf.GetCacheStats
    /\ UNCHANGED <<backoffVars, clock, engineVars>>

StatsTick ==
    /\ clock < MaxClock
    /\ clock' = clock + 1
    /\ UNCHANGED <<backoffVars, stats, statsLock, engineVars>>

NextStats ==
    \/ StatsSetTotalURLs
    \/ \E response \in StatResponses, duration \in StatDurations :
           StatsAddResult(response, duration)
    \/ \E response \in WarmUpResponses : StatsAddWarmUpResult(response)
    \/ \E response \in StatResponses : StatsAddCacheResult(response)
    \/ StatsGetCacheStats
    \/ StatsTick

SpecStats == InitStats /\ [][NextStats]_vars

----------------------------------------------------------------------------
(* SpecFetch: one call of crawlURL on its own, for every kind of answer *)

FetchStatuses == {100, 199, 200, 204, 301, 399, 400, 403, 404, 500, 599}
FetchResponses ==
    {TransportError}
    \cup {[received |-> TRUE, statusCode |-> code, cacheHeader |-> h] :
              code \in FetchStatuses, h \in {"", "HIT"}}

InitFetch ==
    /\ BackoffIdle
    /\ clock = 0
    /\ \E cache \in BOOLEAN :
          /\ cfg = [cacheVerificationMode |-> cache, maxWorkers |-> 1, requestRate |-> 1,
                    nURLs |-> 1, forbiddenErrorThreshold |-> 1,
                    forbiddenErrorWindow |-> 1]
          /\ fetch = [NoFetch EXCEPT !.url = 1, !.cacheMode = cache]
    /\ seed = Served([root |-> "urlset", entries |-> GoodList(1)])
    /\ stats = NewStats(HourTicks(cfg.requestRate))
    /\ statsLock = NoLock
    /\ runErr = NilError
    /\ pc = [at |-> "Run", phase |-> "none"]
    /\ limiters = [id \in LimiterIds |-> NoLimiter]
    /\ urlChan = [p \in Phases |-> NoChan]
    /\ workers = [p \in Phases |-> [i \in 1..MaxWorkers |-> IdleWorker]]
    /\ resultChan = [p \in Phases |-> NoChan]
    /\ wg = [p \in Phases |-> 0]
    /\ issued = [p \in Phases |-> 0]
    /\ recorded = [p \in Phases |-> [u \in 1..MaxTargets |-> 0]]
    /\ returned = [p \in Phases |-> FALSE]
    /\ endedAt = [p \in Phases |-> ZeroTime]
    /\ seen403 = <<>>
    /\ cancelDue = FALSE
    /\ panicked = FALSE
    /\ reporter = NoReporter

fetchFrame == <<backoffVars, cfg, seed, pc, limiters, urlChan, workers, resultChan, wg, stats,
                statsLock, issued, recorded, returned, endedAt, seen403, cancelDue,
                panicked, runErr, reporter>>

\* crawlURL: start := time.Now().
FetchStart ==
    /\ fetch.start = -1
    /\ fetch' = [fetch EXCEPT !.start = clock]
    /\ UNCHANGED <<clock, fetchFrame>>

\* crawlURL: c.client.Do returns and the Result is built.
FetchReturn(response) ==
    /\ fetch.start # -1
    /\ ~fetch.done
    /\ fetch' = [fetch EXCEPT
                     !.done = TRUE,
                     !.response = response,
                     !.result = crawlURL(fetch.url, response, fetch.start, clock,
                                         fetch.cacheMode)]
    /\ UNCHANGED <<clock, fetchFrame>>

FetchTick ==
    /\ ~fetch.done
    /\ clock < MaxClock
    /\ clock' = clock + 1
    /\ UNCHANGED <<fetch, fetchFrame>>

NextFetch ==
    \/ FetchStart
    \/ \E response \in FetchResponses : FetchReturn(response)
    \/ FetchTick

SpecFetch == InitFetch /\ [][NextFetch]_vars

----------------------------------------------------------------------------
(* SpecReport: the progress reporter of a standard crawl.  The reporter only *)
(* reads the aggregator, so it is taken apart from the workers: the results  *)
(* reach the collection loop one by one.                                     *)

reportFrame == <<backoffVars, clock, cfg, seed, pc, limiters, urlChan, workers, resultChan, wg,
                 issued, recorded, returned, endedAt, seen403, cancelDue, panicked, runErr,
                 fetch>>

InitReport ==
    /\ BackoffIdle
    /\ clock = 0
    /\ \E n \in 1..MaxResults :
          cfg = [cacheVerificationMode |-> FALSE, maxWorkers |-> 1, requestRate |-> 1,
                 nURLs |-> n, forbiddenErrorThreshold |-> 1, forbiddenErrorWindow |-> 1]
    /\ seed = Served([root |-> "urlset", entries |-> GoodList(cfg.nURLs)])
    /\ stats = NewStats(HourTicks(cfg.requestRate))
    /\ statsLock = NoLock
    /\ \E quiet \in BOOLEAN : reporter = [NoReporter EXCEPT !.quiet = quiet]
    /\ pc = [at |-> "Run", phase |-> "none"]
    /\ limiters = [id \in LimiterIds |-> NoLimiter]
    /\ urlChan = [p \in Phases |-> NoChan]
    /\ workers = [p \in Phases |-> [i \in 1..MaxWorkers |-> IdleWorker]]
    /\ resultChan = [p \in Phases |-> NoChan]
    /\ wg = [p \in Phases |-> 0]
    /\ issued = [p \in Phases |-> 0]
    /\ recorded = [p \in Phases |-> [u \in 1..MaxTargets |-> 0]]
    /\ returned = [p \in Phases |-> FALSE]
    /\ endedAt = [p \in Phases |-> ZeroTime]
    /\ seen403 = <<>>
    /\ cancelDue = FALSE
    /\ panicked = FALSE
    /\ runErr = NilError
    /\ fetch = NoFetch

\* runStandardCrawl: ctx, cancel := context.WithCancel(...) and, unless quiet,
\* go c.startProgressReporter(ctx), which makes its ticker and enters select.
ReporterStart ==
    /\ stats.startTime # ZeroTime
    /\ reporter.ctx = "none"
    /\ reporter' = [reporter EXCEPT !.ctx = "live",
                                    !.at = IF reporter.quiet THEN "none" ELSE "select"]
    /\ UNCHANGED <<stats, statsLock, reportFrame>>

\* The collection loop records a result: c.stats.AddResult(result).
ReportCollect(response) ==
    /\ reporter.ctx = "live"
    /\ ~reporter.finalPrinted
    /\ StatsAddResult(response, 1)

\* The ticker of a reporter that has not returned sends a tick: progressInterval
\* has elapsed.  ticker.C holds one tick at most.
TickerFires ==
    /\ reporter.at = "select"
    /\ ~reporter.tick
    /\ reporter.ticks < MaxTicks
    /\ reporter' = [reporter EXCEPT !.tick = TRUE, !.ticks = @ + 1]
    /\ UNCHANGED <<stats, statsLock, reportFrame>>

\* startProgressReporter: case <-ticker.C: c.printProgress(), which prints a
\* snapshot unless nothing was processed yet.
ReporterPrint ==
    /\ reporter.at = "select"
    /\ reporter.tick
    /\ reporter' = [reporter EXCEPT
                        !.tick = FALSE,
                        !.snapshots = IF GetProgress(stats, clock).processed = 0
                                      THEN @ ELSE @ + 1]
    /\ statsLock' = LockOf.GetProgress
    /\ UNCHANGED <<stats, reportFrame>>

\* startProgressReporter: case <-ctx.Done(): return (defer ticker.Stop()).
\* With a tick pending as well, select takes either case.
ReporterReturn ==
    /\ reporter.at = "select"
    /\ reporter.ctx = "done"
    /\ reporter' = [reporter EXCEPT !.at = "returned"]
    /\ UNCHANGED <<stats, statsLock, reportFrame>>

\* runStandardCrawl: the collection loop has ended; c.printFinalStats().
PrintFinalStats ==
    /\ reporter.ctx = "live"
    /\ stats.processed = cfg.nURLs
    /\ ~reporter.finalPrinted
    /\ reporter' = [reporter EXCEPT !.finalPrinted = TRUE]
    /\ statsLock' = LockOf.GetFinalStats
    /\ UNCHANGED <<stats, reportFrame>>

\* runStandardCrawl returns: the deferred cancel() ends the context.
CrawlReturn ==
    /\ reporter.finalPrinted
    /\ reporter.ctx = "live"
    /\ reporter' = [reporter EXCEPT !.ctx = "done"]
    /\ UNCHANGED <<stats, statsLock, reportFrame>>

NextReport ==
    \/ StatsSetTotalURLs
    \/ ReporterStart
    \/ \E response \in WarmUpResponses : ReportCollect(response)
    \/ TickerFires
    \/ ReporterPrint
    \/ ReporterReturn
    \/ PrintFinalStats
    \/ CrawlReturn

SpecReport == InitReport /\ [][NextReport]_vars

----------------------------------------------------------------------------
(* Claims about the backoff Manager, checked under SpecBackoff *)

Min(a, b) == IF a <= b THEN a ELSE b

RECURSIVE Pow(_, _)
Pow(b, e) == IF e = 0 THEN 1 ELSE b * Pow(b, e - 1)

Is5xx(code) == code >= 500 /\ code < 600
Is2xx3xx(code) == code >= 200 /\ code < 400

\* C5: on an enabled controller, a 403 that leaves fewer than
\* forbiddenErrorThreshold 403s inside the window does not cancel, and a 403
\* that brings the number of 403s inside the window to the threshold sets
\* the cancelled flag and returns a fatal error, whatever else was observed
\* in between.
C5_ForbiddenThreshold ==
    (last.status = 403 /\ mgr.enabled) =>
        /\ last.recent403 >= mgr.forbiddenErrorThreshold =>
               (mgr.cancelled /\ ret.err # NoError)
        /\ (last.recent403 < mgr.forbiddenErrorThreshold /\ ~last.preCancelled) =>
               (~mgr.cancelled /\ ret.err = NoError)

\* C5 witness: the 403 that reaches the threshold cancels although an older
\* 403, outside the window, had been observed before.
C5_Witness ==
    /\ last.path = "threshold"
    /\ mgr.cancelled
    /\ mgr.forbiddenErrorThreshold >= 2
    /\ last.recent403 = mgr.forbiddenErrorThreshold
    /\ Len(all403) > mgr.forbiddenErrorThreshold

\* C6 as stated: after cancellation every observation returns the very error
\* the cancelling observation returned, with shouldBackoff = false, delay = 0.
C6_SameErrorAsCancelling ==
    last.preCancelled =>
        (ret.err = cancelErr /\ ~ret.shouldBackoff /\ ret.delay = 0)

\* C6 amended: after cancellation every observation, whatever its status,
\* returns (false, 0, fatal) where fatal is always the error "crawl cancelled
\* due to too many 403 errors", which is not the error text of the
\* cancelling observation.
C6_FatalAfterCancelled ==
    last.preCancelled =>
        /\ ret = [shouldBackoff |-> FALSE, delay |-> 0, err |-> ErrAlreadyCancelled]
        /\ ret.err # NoError
        /\ cancelErr.msg # ErrAlreadyCancelled.msg

\* C6 witness: a 5xx observed after cancellation.
C6_Witness == last.preCancelled /\ last.status = 500 /\ mgr.cancelled

\* The delay the k-th consecutive 5xx returns when every product is cut to a
\* whole tick.
RECURSIVE EscalatedDelay(_, _)
EscalatedDelay(s, k) ==
    IF k <= 1 THEN s.initialDelay
    ELSE Min(ScaleDuration(EscalatedDelay(s, k - 1), s.multiplier), s.maxDelay)

\* C8 as stated: the k-th consecutive 5xx from inactive backoff returns
\* shouldBackoff = true and delay = min(initialDelay * multiplier^(k-1), maxDelay),
\* the power taken exactly.
C8_ClosedFormDelay ==
    streak >= 1 =>
        /\ ret.shouldBackoff
        /\ LET p == mgr.initialDelay * Pow(mgr.multiplier[1], streak - 1)
               q == Pow(mgr.multiplier[2], streak - 1)
           IN  IF p >= mgr.maxDelay * q
               THEN ret.delay = mgr.maxDelay
               ELSE ret.delay * q = p

\* C8 amended: the k-th consecutive 5xx from inactive backoff returns
\* shouldBackoff = true and delay d_k, where d_1 = initialDelay and
\* d_k = min(d_(k-1) * multiplier cut to a whole tick, maxDelay); for a whole
\* multiplier this is min(initialDelay * multiplier^(k-1), maxDelay).
C8_EscalatedDelay ==
    streak >= 1 =>
        /\ ret.shouldBackoff
        /\ ret.delay = EscalatedDelay(mgr, streak)
        /\ mgr.currentDelay = ret.delay
        /\ mgr.multiplier[2] = 1 =>
               ret.delay = Min(mgr.initialDelay * Pow(mgr.multiplier[1], streak - 1),
                               mgr.maxDelay)

\* C8 witness: the fourth consecutive 5xx is capped at maxDelay (1, 2, 4, 5).
C8_Witness ==
    /\ streak = 4
    /\ ret.delay = mgr.maxDelay
    /\ mgr.initialDelay * Pow(mgr.multiplier[1], 3) > mgr.maxDelay * Pow(mgr.multiplier[2], 3)

\* C9 as stated: after any observation with 200 <= status < 400 that is not
\* classified as degraded, backoff is inactive, currentDelay = initialDelay
\* and the call returned shouldBackoff = false.
C9_RecoveryAlways ==
    (Is2xx3xx(last.status) /\ last.path # "degraded") =>
        (~mgr.backoffActive /\ mgr.currentDelay = mgr.initialDelay /\ ~ret.shouldBackoff)

\* C9 amended: the same, for a controller that was not already cancelled when
\* the observation was made.
C9_Recovery ==
    (Is2xx3xx(last.status) /\ last.path # "degraded" /\ ~last.preCancelled) =>
        (~mgr.backoffActive /\ mgr.currentDelay = mgr.initialDelay /\ ~ret.shouldBackoff)

\* C9 witness: a 200 that resets an escalated delay.
C9_Witness ==
    /\ last.status = 200
    /\ last.path = "normal"
    /\ last.preActive
    /\ last.preDelay > mgr.initialDelay
    /\ ~mgr.backoffActive

\* C10 as stated: after any 5xx observation, after any earlier observations,
\* backoff is active and the returned delay lies in [initialDelay, maxDelay]
\* (read for an enabled controller, which is the reading kindest to the claim).
C10_ActiveAfterAny5xx ==
    (Is5xx(last.status) /\ mgr.enabled) =>
        (mgr.backoffActive /\ ret.delay >= mgr.initialDelay /\ ret.delay <= mgr.maxDelay)

\* C10 amended: the same, for an enabled controller that was not already
\* cancelled when the 5xx was observed.
C10_ActiveAfter5xx ==
    (Is5xx(last.status) /\ mgr.enabled /\ ~last.preCancelled) =>
        (mgr.backoffActive /\ ret.delay >= mgr.initialDelay /\ ret.delay <= mgr.maxDelay)

\* C10 witness: a 5xx that advances a backoff which other observations
\* interleaved with the server errors.
C10_Witness ==
    /\ last.path = "server_error"
    /\ last.preActive
    /\ streak = 0
    /\ ret.delay > mgr.initialDelay
\* C11: a controller disabled at construction answers every call with
\* (false, 0, nil) and keeps the state it was constructed with: backoff
\* inactive at initialDelay, ring, baseline and forbidden list empty or zero,
\* never cancelled, the cancel function never invoked.
C11_DisabledIsInert ==
    ~mgr.enabled =>
        /\ ret = [shouldBackoff |-> FALSE, delay |-> 0, err |-> NoError]
        /\ ~mgr.backoffActive
        /\ mgr.currentDelay = mgr.initialDelay
        /\ mgr.recentResponseTimes = <<>>
        /\ mgr.baselineResponseTime = 0
        /\ mgr.forbiddenErrors = <<>>
        /\ ~mgr.cancelled
        /\ cancelCalls = 0

\* C11 witness: a disabled controller with a cancel function installed has
\* been fed MaxObs observations, the last a 403 that reaches the threshold
\* within the window.
C11_Witness ==
    /\ ~mgr.enabled
    /\ mgr.cancelFunc
    /\ last.status = 403
    /\ last.recent403 >= mgr.forbiddenErrorThreshold
    /\ nObs = MaxObs

\* The ring average as the Manager computes it is strictly above
\* baseline x (1 + degradationThreshold), compared without rounding.
AboveDegradationBound(s) ==
    LET t == s.responseTimeDegradationThreshold
    IN  getCurrentAverageResponseTime(s) * t[2] > s.baselineResponseTime * (t[2] + t[1])

\* The delay a server error gives after a state with the given flag and delay.
AdvancedDelay(s, wasActive, delayBefore) ==
    IF ~wasActive THEN s.initialDelay
    ELSE Min(ScaleDuration(delayBefore, s.multiplier), s.maxDelay)

\* C12 as stated: once a baseline is set, every observation after which the
\* ring average is above the bound returns shouldBackoff = true with backoff
\* activated at initialDelay or advanced to min(delay x multiplier, maxDelay);
\* one after which it is not above is no degradation backoff.
C12_DegradationAlways ==
    (last.path # "none" /\ mgr.baselineResponseTime # 0) =>
        IF AboveDegradationBound(mgr)
        THEN /\ ret.shouldBackoff
             /\ mgr.backoffActive
             /\ ret.delay = AdvancedDelay(mgr, last.preActive, last.preDelay)
        ELSE last.path # "degraded"

\* C12: the same for an observation made on a controller not yet cancelled
\* and that does not itself cross the 403 threshold.
C12_Degradation ==
    (last.path \in {"server_error", "degraded", "normal"} /\ mgr.baselineResponseTime # 0) =>
        IF AboveDegradationBound(mgr)
        THEN /\ ret.shouldBackoff
             /\ ret.err = NoError
             /\ mgr.backoffActive
             /\ last.path # "normal"
             /\ ret.delay = AdvancedDelay(mgr, last.preActive, last.preDelay)
             /\ mgr.currentDelay = ret.delay
        ELSE last.path # "degraded"

\* C12 witness: a degraded observation that is no server error met backoff
\* already active and advanced the delay beyond initialDelay.
C12_Witness ==
    /\ last.path = "degraded"
    /\ last.status \in {200, 403, 404}
    /\ last.preActive
    /\ ret.delay > mgr.initialDelay
    /\ AboveDegradationBound(mgr)

\* C13: once the baseline response time is set (non-zero), no step changes it.
C13_BaselineNeverChanges ==
    [][mgr.baselineResponseTime # 0 =>
           mgr'.baselineResponseTime = mgr.baselineResponseTime]_vars

\* C13 witness: with the baseline set, the ring took further samples, backoff
\* was activated and a recovery has just reset it.
C13_Witness ==
    /\ mgr.baselineResponseTime # 0
    /\ Len(mgr.recentResponseTimes) > responseTimeWindow \div 2
    /\ last.path = "normal"
    /\ last.preActive
    /\ ~mgr.backoffActive

\* C14: after a 403 observed by an enabled controller not yet cancelled, the
\* forbidden list holds exactly the 403s less than forbiddenErrorWindow old
\* at that instant, older ones are expunged before the threshold check, and
\* fewer than the threshold of them do not cancel.
C14_WindowExpunged ==
    (last.status = 403 /\ mgr.enabled /\ ~last.preCancelled) =>
        /\ mgr.forbiddenErrors # <<>>
        /\ LET now == mgr.forbiddenErrors[Len(mgr.forbiddenErrors)]
           IN  /\ \A i \in DOMAIN mgr.forbiddenErrors :
                      now - mgr.forbiddenErrors[i] < mgr.forbiddenErrorWindow
               /\ Len(mgr.forbiddenErrors) =
                      Cardinality({i \in DOMAIN all403 :
                                       now - all403[i] < mgr.forbiddenErrorWindow})
        /\ Len(mgr.forbiddenErrors) < mgr.forbiddenErrorThreshold =>
               (~mgr.cancelled /\ ret.err = NoError)

\* C14 witness: threshold 2; one 403, then more than the window later another
\* 403: not cancelled, and a forbidden count of 1.
C14_Witness ==
    /\ last.status = 403
    /\ mgr.enabled
    /\ mgr.forbiddenErrorThreshold = 2
    /\ Len(all403) = 2
    /\ all403[2] - all403[1] > mgr.forbiddenErrorWindow
    /\ Len(mgr.forbiddenErrors) = 1
    /\ ~mgr.cancelled

----------------------------------------------------------------------------
(* Claims about the crawler, checked under Spec *)

RECURSIVE SumTo(_, _)
SumTo(f, n) == IF n = 0 THEN 0 ELSE f[n] + SumTo(f, n - 1)

\* Tokens granted in phase p, over every limiter a worker of the phase uses.
Granted(p) ==
    LET ids == {WorkerLimiter(p, i) : i \in 1..cfg.maxWorkers}
        g[S \in SUBSET ids] ==
            IF S = {} THEN 0
            ELSE LET id == CHOOSE x \in S : TRUE
                 IN  limiters[id].granted + g[S \ {id}]
    IN  g[ids]

\* C1: in every phase and for every worker count, no URL is ever recorded
\* twice, and when the phase returns every enqueued URL has exactly one result
\* recorded in the aggregator, failed fetches included: the recorded results
\* number as many as the enqueued URLs, and no worker has panicked.
C1_EveryURLRecordedOnce ==
    \A p \in Phases :
        /\ \A u \in 1..MaxURLs : recorded[p][u] <= 1
        /\ returned[p] =>
              /\ urlChan[p].sent = cfg.nURLs
              /\ \A u \in 1..cfg.nURLs : recorded[p][u] = 1
              /\ SumTo(recorded[p], MaxURLs) = cfg.nURLs
              /\ p = "standard" =>
                    /\ stats.processed = cfg.nURLs
                    /\ stats.successCount + stats.errorCount = cfg.nURLs
              /\ p = "warmup" => Len(stats.warmUpResults) = cfg.nURLs
              /\ p = "verify" => Len(stats.cacheResults) = cfg.nURLs
              /\ ~panicked

\* C1 witness: a standard crawl of two URLs by two workers has returned with
\* both fetches failed, one by a transport error and one by a 403.
C1_Witness ==
    /\ returned["standard"]
    /\ cfg.maxWorkers = 2
    /\ cfg.nURLs = 2
    /\ stats.errorCount = 2
    /\ Len(seen403) = 1

\* C2: in cache-verification mode, once the verify phase has begun (its
\* channels exist, a verify request was issued or a verify result recorded),
\* every warm-up worker has exited, every warm-up request was issued and
\* every warm-up result has been recorded in the aggregator.
C2_WarmUpBeforeVerify ==
    (\/ urlChan["verify"].made
     \/ issued["verify"] > 0
     \/ stats.cacheResults # <<>>
     \/ \E i \in 1..MaxWorkers : workers["verify"][i].at # "idle") =>
        /\ cfg.cacheVerificationMode
        /\ returned["warmup"]
        /\ \A i \in 1..cfg.maxWorkers : workers["warmup"][i].at = "done"
        /\ issued["warmup"] = cfg.nURLs
        /\ resultChan["warmup"].closed
        /\ resultChan["warmup"].buf = <<>>
        /\ \A u \in 1..cfg.nURLs : recorded["warmup"][u] = 1
        /\ Len(stats.warmUpResults) = cfg.nURLs

\* C2 witness: two workers, two URLs; a verify request is in flight and a
\* verify result has been recorded.
C2_Witness ==
    /\ cfg.maxWorkers = 2
    /\ cfg.nURLs = 2
    /\ stats.cacheResults # <<>>
    /\ \E i \in 1..MaxWorkers : workers["verify"][i].at = "fetch"

\* C3: all workers of a phase draw from one bucket of rate R and burst R (one
\* tick is 1/R second, so R x elapsed seconds is the ticks elapsed): requests
\* issued never exceed tokens granted, tokens granted never exceed
\* R + R x elapsed, and granted + left + lost to the full bucket = R + R x
\* elapsed whatever the worker count, so that under saturating demand (no
\* token left, none lost) a pool of N workers is granted exactly
\* R + R x elapsed, as a single worker is.
C3_SharedBucket ==
    \A p \in Phases :
        urlChan[p].made =>
            LET l == limiters[WorkerLimiter(p, 1)]
            IN  /\ l.live
                /\ l.burst = cfg.requestRate
                /\ issued[p] <= Granted(p)
                /\ Granted(p) <= cfg.requestRate + l.elapsed
                /\ Granted(p) + l.tokens + l.wasted = cfg.requestRate + l.elapsed
                /\ (l.tokens = 0 /\ l.wasted = 0) =>
                       Granted(p) = cfg.requestRate + l.elapsed

\* C3 witness: two workers under saturating demand: one holds its token, the
\* other got the token of the tick it had to wait for; granted = R + elapsed.
C3_Witness ==
    /\ cfg.maxWorkers = 2
    /\ cfg.requestRate = 1
    /\ LET l == limiters[WorkerLimiter("standard", 1)]
       IN  /\ l.live
           /\ l.elapsed = 1
           /\ l.wasted = 0
           /\ l.granted = 2
    /\ \A i \in 1..2 : workers["standard"][i].at \in {"crawl", "fetch"}

\* C4: one bucket governs both phases of cache-verification mode: the
\* requests issued by warm-up and verify together never exceed the burst R
\* plus the refill since the warm-up's bucket was created (verify is not
\* granted a second burst).
C4_OneBucketAcrossPhases ==
    LET l == limiters[WorkerLimiter("warmup", 1)]
    IN  l.live => issued["warmup"] + issued["verify"] <= cfg.requestRate + l.elapsed

\* C7: once the 403 threshold is crossed within the window (the cancellation
\* is due), no worker issues a new request.
C7_NoRequestAfterCancel == [][cancelDue => issued' = issued]_vars

TotalRecorded ==
    SumTo(recorded["standard"], MaxURLs) + SumTo(recorded["warmup"], MaxURLs)
        + SumTo(recorded["verify"], MaxURLs)

\* C15: every result recorded by the aggregator was first observed by the
\* backoff controller: the aggregator never holds more results than the
\* controller has observed.
C15_ObservedBeforeRecorded == TotalRecorded <= nObs

\* C16: after a run has drained, in either mode, processed = success + error.
C16_ProcessedIsSuccessPlusError ==
    pc.at = "done" => stats.processed = stats.successCount + stats.errorCount

\* C18: at every instant of a run the progress percentage lies in [0, 100],
\* and it is 0 while the total is 0.
C18_PercentageInRange ==
    LET g == GetProgress(stats, clock).percentage
    IN  /\ g.den > 0
        /\ 0 <= g.num
        /\ g.num <= 100 * g.den
        /\ stats.totalURLs = 0 => g.num = 0

\* C18 witness: a cache-verification run of two URLs has drained, through
\* 50 percent, at 100 percent.
C18_Witness ==
    /\ pc = [at |-> "done", phase |-> "verify"]
    /\ cfg.nURLs = 2
    /\ Len(stats.cacheResults) = 2
    /\ GetProgress(stats, clock).percentage = Percent(2, 2)

\* C19: after a cache-verification run the report's warm-up duration is the
\* instant the warm-up phase ended minus the instant it started, and its
\* verify duration the verify end minus the verify start.
C19_PhaseDurations ==
    pc = [at |-> "done", phase |-> "verify"] =>
        LET r == GetCacheStats(stats, clock)
        IN  /\ r.warmUpTime = endedAt["warmup"] - stats.warmUpStart
            /\ r.verifyTime = endedAt["verify"] - stats.verifyStart

----------------------------------------------------------------------------
(* Claims about the aggregator, checked under SpecStats *)

\* C17: for the results recorded so far the final report has
\* min <= average <= max whenever processed > 0, and min = 0 when
\* processed = 0.
C17_MinAvgMax ==
    LET f == GetFinalStats(stats, HourTicks(cfg.requestRate))
    IN  /\ stats.processed > 0 =>
              /\ f.minDuration <= f.averageDuration
              /\ f.averageDuration <= f.maxDuration
        /\ stats.processed = 0 => f.minDuration = 0

\* C17 witness: three results of different durations: 0 < min < average < max.
C17_Witness ==
    LET f == GetFinalStats(stats, HourTicks(cfg.requestRate))
    IN  /\ stats.processed = 3
        /\ 0 < f.minDuration
        /\ f.minDuration < f.averageDuration
        /\ f.averageDuration < f.maxDuration

HitIndexes == {i \in DOMAIN stats.cacheResults :
                   stats.cacheResults[i].cacheStatus \in {"HIT", "hit"}}
MissIndexes == {i \in DOMAIN stats.cacheResults :
                    stats.cacheResults[i].cacheStatus \notin {"", "HIT", "hit"}}

\* C20: the cache report counts verify results only: hits are the results
\* whose cache status is exactly "HIT" or "hit", misses those with any other
\* non-empty status, empty ones are ignored; the hit rate is
\* hits / (hits + misses) x 100, and 0 when there is neither.
C20_CacheReport ==
    LET r == GetCacheStats(stats, clock)
        h == Cardinality(HitIndexes)
        m == Cardinality(MissIndexes)
    IN  /\ r.cacheHits = h
        /\ r.cacheMisses = m
        /\ h + m > 0 => r.cacheHitRate = [num |-> h * 100, den |-> h + m]
        /\ h + m = 0 => r.cacheHitRate.num = 0

\* C20 witness: warm-up results with status "HIT", and verify results with
\* "hit", "Hit" and the empty status: one hit, one miss, a rate of 50.
C20_Witness ==
    /\ \E i \in DOMAIN stats.warmUpResults : stats.warmUpResults[i].cacheStatus = "HIT"
    /\ {stats.cacheResults[i].cacheStatus : i \in DOMAIN stats.cacheResults}
           = {"hit", "Hit", ""}
    /\ GetCacheStats(stats, clock).cacheHitRate = Percent(1, 2)

----------------------------------------------------------------------------
(* Claims about crawlURL, checked under SpecFetch *)

\* C21: for every Result of crawlURL: when a response was received, success
\* is true exactly when 200 <= status < 400, the Result carries the status
\* of the response and no error text; when the request failed at transport
\* level, success is false, the status is 0 and the error text is set.
C21_FetchResult ==
    fetch.done =>
        LET a == fetch.response
            r == fetch.result
        IN  /\ a.received =>
                  /\ r.success <=> (200 <= a.statusCode /\ a.statusCode < 400)
                  /\ r.statusCode = a.statusCode
                  /\ ~r.error
            /\ ~a.received =>
                  /\ ~r.success
                  /\ r.statusCode = 0
                  /\ r.error

\* C21 witness: crawlURL has returned the Result of a 199: a response was
\* received, below the range of the successes.
C21_Witness ==
    /\ fetch.done
    /\ fetch.response.received
    /\ fetch.response.statusCode = 199
    /\ ~fetch.result.success
    /\ fetch.result.duration > 0

----------------------------------------------------------------------------
(* Claims about the start of a run, checked under Spec *)

NoneValid(urls) == \A i \in DOMAIN urls : ~ValidateURL(urls[i])

\* C22: when the sitemap resolves to URLs none of which passes the validator,
\* Run returns the no-valid-URLs error, and a run that returned this error
\* has started no worker: no limiter and no channel was created, no token
\* taken, no request issued, no result recorded, and the aggregator is as
\* it was constructed.
C22_NoValidURLsAbort ==
    LET r == ParseSitemap(seed)
    IN  /\ (pc.at # "Run" /\ r.err = NilError /\ NoneValid(r.urls)) =>
               runErr = ErrNoValidURLs
        /\ runErr = ErrNoValidURLs =>
               /\ pc.at = "done"
               /\ \A id \in LimiterIds : ~limiters[id].live /\ limiters[id].granted = 0
               /\ \A p \in Phases :
                      /\ ~urlChan[p].made
                      /\ ~resultChan[p].made
                      /\ \A i \in 1..MaxWorkers : workers[p][i] = IdleWorker
                      /\ issued[p] = 0
                      /\ \A u \in 1..MaxTargets : recorded[p][u] = 0
               /\ stats = NewStats(HourTicks(cfg.requestRate))

\* C22 witness: a URL set whose only entry has the scheme ftp; Run, configured
\* with two workers, has returned the no-valid-URLs error.
C22_Witness ==
    /\ seed = Served([root |-> "urlset", entries |-> <<FtpURL>>])
    /\ cfg.maxWorkers = 2
    /\ pc.at = "done"
    /\ runErr = ErrNoValidURLs

\* C23: when the sitemap URL answers a URL set with no <url> children, Run
\* returns the no-valid-URLs error.
C23_EmptyURLSetNoValidURLs ==
    (pc.at = "done" /\ seed = Served([root |-> "urlset", entries |-> <<>>])) =>
        runErr = ErrNoValidURLs

----------------------------------------------------------------------------
(* Claims about termination, checked under SpecLive *)

\* Phase p has ended in order: every URL was enqueued and the URL channel
\* closed and drained, every worker has exited, the result channel is closed
\* and drained, and the phase function has returned.
PhaseEnded(p) ==
    /\ urlChan[p].sent = cfg.nURLs
    /\ urlChan[p].closed
    /\ urlChan[p].buf = <<>>
    /\ \A i \in 1..cfg.maxWorkers : workers[p][i].at = "done"
    /\ wg[p] = 0
    /\ resultChan[p].closed
    /\ resultChan[p].buf = <<>>
    /\ returned[p]
    /\ ~panicked

\* C24: under fair scheduling every phase that starts ends in order, for
\* every worker count and URL list, and Run returns.
C24_PhasesTerminate ==
    /\ \A p \in Phases : urlChan[p].made ~> PhaseEnded(p)
    /\ <>(pc.at = "done")

\* C24 witness: the verify phase of two workers over two URLs has ended, a
\* worker having waited for a token.
C24_Witness ==
    /\ cfg.maxWorkers = 2
    /\ cfg.nURLs = 2
    /\ PhaseEnded("verify")
    /\ clock > 0

----------------------------------------------------------------------------
(* Claims about the request rate, checked under SpecBurst *)

\* C25: in any one-second window the workers together issue at most R
\* requests, R the configured requests per second: in particular within the
\* first second after a phase created its bucket (one tick is 1/R second, so
\* while fewer than R ticks have elapsed) no more than R requests have been
\* issued.
C25_AtMostRatePerSecond ==
    \A p \in Phases :
        LET l == limiters[WorkerLimiter(p, 1)]
        IN  (l.live /\ l.elapsed < cfg.requestRate) => issued[p] <= cfg.requestRate

----------------------------------------------------------------------------
(* Claims about the aggregator's lock, checked under SpecStats *)

\* C26: the aggregator is written only under its exclusive lock: every step
\* that changes a field of the aggregator is the step of a method that took
\* Lock, never of one that took RLock (GetProgress, GetFinalStats,
\* GetCacheStats).
C26_WritesOnlyUnderLock == [][stats' # stats => statsLock' = "Lock"]_vars

----------------------------------------------------------------------------
(* Claims about the response-time ring and the delay, checked under SpecBackoff *)

\* The step is a ShouldBackoff call that reached trackResponseTime, with the
\* duration last'.tracked.
TrackingStep == nObs' = nObs + 1 /\ last'.tracked # -1

HalfWindow == responseTimeWindow \div 2

\* C27 as claimed: the baseline is zero while the ring holds fewer than 10
\* samples, is assigned the average of the ring on the observation that
\* brings the ring to 10 samples, and is not assigned on any later
\* observation.
C27_BaselineAtTenthSample ==
    [][ /\ Len(mgr'.recentResponseTimes) < HalfWindow => mgr'.baselineResponseTime = 0
        /\ (Len(mgr.recentResponseTimes) < HalfWindow
               /\ Len(mgr'.recentResponseTimes) >= HalfWindow) =>
              mgr'.baselineResponseTime = getCurrentAverageResponseTime(mgr')
        /\ Len(mgr.recentResponseTimes) >= HalfWindow =>
              mgr'.baselineResponseTime = mgr.baselineResponseTime ]_vars

\* C27: the baseline is zero while the ring holds fewer than 10 samples; an
\* observation that is tracked while the baseline is zero and leaves at
\* least 10 samples in the ring sets it to the average of the ring, so it
\* stays zero while that average is zero and is established by the first
\* such observation with a non-zero average; no other step assigns it, and
\* once non-zero it never changes.
C27_BaselineOnce ==
    [][ /\ Len(mgr'.recentResponseTimes) < HalfWindow => mgr'.baselineResponseTime = 0
        /\ (mgr.baselineResponseTime = 0 /\ TrackingStep
               /\ Len(mgr'.recentResponseTimes) >= HalfWindow) =>
              mgr'.baselineResponseTime = getCurrentAverageResponseTime(mgr')
        /\ (mgr.baselineResponseTime # 0 \/ ~TrackingStep) =>
              mgr'.baselineResponseTime = mgr.baselineResponseTime ]_vars

\* C27 witness: nine samples of 0, then 1 and 10: the tenth sample left the
\* baseline at zero and the eleventh established it.
C27_Witness ==
    /\ Len(mgr.recentResponseTimes) = HalfWindow + 1
    /\ mgr.recentResponseTimes[1] = 0
    /\ SumSeq(mgr.recentResponseTimes) = 11
    /\ mgr.baselineResponseTime = 1

\* C28: an observation whose status is not 2xx/3xx leaves the ring and the
\* baseline unchanged and is never answered as a degradation.
C28_OnlySuccessesTracked ==
    [][ (nObs' = nObs + 1 /\ ~Is2xx3xx(last'.status)) =>
            /\ mgr'.recentResponseTimes = mgr.recentResponseTimes
            /\ mgr'.baselineResponseTime = mgr.baselineResponseTime
            /\ last'.path # "degraded" ]_vars

\* The last responseTimeWindow entries of q, in order.
KeepLast(q) ==
    IF Len(q) > responseTimeWindow
    THEN SubSeq(q, Len(q) - responseTimeWindow + 1, Len(q))
    ELSE q

\* C29: the ring never holds more than 20 samples; a tracked observation
\* appends its duration at the end, the oldest sample being dropped when it
\* is the 21st, and no other step changes the ring: the ring is the most
\* recent min(n, 20) tracked durations in arrival order.
C29_RingHoldsLast20 ==
    [][ /\ Len(mgr'.recentResponseTimes) <= responseTimeWindow
        /\ TrackingStep =>
              mgr'.recentResponseTimes =
                  KeepLast(Append(mgr.recentResponseTimes, last'.tracked))
        /\ ~TrackingStep => mgr'.recentResponseTimes = mgr.recentResponseTimes ]_vars

\* C29 witness: 19 samples of 1, then 10, 10 and 1: of 22 durations the ring
\* holds the last 20, the two oldest dropped.
C29_Witness ==
    /\ Len(mgr.recentResponseTimes) = responseTimeWindow
    /\ nObs = 3
    /\ mgr.recentResponseTimes[responseTimeWindow - 2] = 10
    /\ mgr.recentResponseTimes[responseTimeWindow - 1] = 10
    /\ mgr.recentResponseTimes[responseTimeWindow] = 1
    /\ SumSeq(mgr.recentResponseTimes) = 38

\* C30: in every state of an enabled controller (built with
\* initialDelay <= maxDelay) currentDelay lies in [initialDelay, maxDelay],
\* and while backoff is inactive currentDelay = initialDelay.
C30_DelayInRange ==
    mgr.enabled =>
        /\ mgr.initialDelay <= mgr.maxDelay
        /\ mgr.initialDelay <= mgr.currentDelay
        /\ mgr.currentDelay <= mgr.maxDelay
        /\ ~mgr.backoffActive => mgr.currentDelay = mgr.initialDelay

\* C30 witness: an enabled controller whose delay had escalated above
\* initialDelay has recovered: inactive at initialDelay.
C30_Witness ==
    /\ mgr.enabled
    /\ last.preActive
    /\ last.preDelay > mgr.initialDelay
    /\ last.path = "normal"
    /\ ~mgr.backoffActive
    /\ mgr.currentDelay = mgr.initialDelay

----------------------------------------------------------------------------
(* Claims about the cancellation and the 403 window, checked under SpecBackoff *)

\* C31: the cancel function is invoked exactly once: by the observation of a
\* 403 on a controller not yet cancelled that brings the 403s inside the
\* window to the threshold, and by no later observation, a later 403
\* included; a controller with a cancel function installed has invoked it
\* once when it is cancelled and never before.
C31_CancelInvokedOnce ==
    /\ [](cancelCalls = IF mgr.cancelled /\ mgr.cancelFunc THEN 1 ELSE 0)
    /\ [][ cancelCalls' # cancelCalls =>
               /\ cancelCalls = 0
               /\ cancelCalls' = 1
               /\ ~mgr.cancelled
               /\ mgr'.cancelled
               /\ last'.status = 403
               /\ last'.recent403 = mgr.forbiddenErrorThreshold ]_vars

\* C31 witness: the cancel function was invoked once, and two further
\* observations were made since, the last a 403 that again finds the
\* threshold reached within the window.
C31_Witness ==
    /\ cancelCalls = 1
    /\ last.preCancelled
    /\ last.status = 403
    /\ last.recent403 > mgr.forbiddenErrorThreshold
    /\ nObs >= 3

\* C35: the cancelled state is terminal and frozen: once the flag is set no
\* step clears it, and no step changes backoffActive, currentDelay, the
\* response-time ring, the baseline or the forbidden list.
C35_CancelledIsFrozen ==
    [][ mgr.cancelled =>
            /\ mgr'.cancelled
            /\ mgr'.backoffActive = mgr.backoffActive
            /\ mgr'.currentDelay = mgr.currentDelay
            /\ mgr'.recentResponseTimes = mgr.recentResponseTimes
            /\ mgr'.baselineResponseTime = mgr.baselineResponseTime
            /\ mgr'.forbiddenErrors = mgr.forbiddenErrors ]_vars

\* C35 witness: cancelled while backoff was active at an escalated delay; a
\* 200 observed afterwards has left it active at that delay.
C35_Witness ==
    /\ mgr.cancelled
    /\ last.preCancelled
    /\ last.status = 200
    /\ mgr.backoffActive
    /\ mgr.currentDelay > mgr.initialDelay

\* C36: immediately after a 403 is processed at the instant now, the
\* forbidden list is exactly the instants t of the 403s observed so far with
\* now - window < t <= now, in arrival order: none inside the window is
\* dropped, none as old as the window or older is kept.
C36_WindowExact ==
    (last.status = 403 /\ mgr.enabled /\ ~last.preCancelled) =>
        LET now == all403[Len(all403)]
            InWindow(t) == now - mgr.forbiddenErrorWindow < t /\ t <= now
        IN  mgr.forbiddenErrors = SelectSeq(all403, InWindow)

\* C36 witness: two 403s exactly one window apart, then a third at the
\* instant of the second: the first, as old as the window, is dropped and
\* the two others are kept.
C36_Witness ==
    /\ last.status = 403
    /\ mgr.enabled
    /\ ~last.preCancelled
    /\ Len(all403) = 3
    /\ all403[2] - all403[1] = mgr.forbiddenErrorWindow
    /\ all403[3] = all403[2]
    /\ mgr.forbiddenErrors = <<all403[2], all403[3]>>

\* C37 as claimed: on an enabled controller not yet cancelled, an observation
\* whose status is neither in [200, 400) nor in [500, 600) and that is not
\* classified as degraded returns (false, 0, nil) and leaves backoffActive
\* and currentDelay unchanged.
C37_OtherStatusInert ==
    (/\ nObs > 0
     /\ mgr.enabled
     /\ ~last.preCancelled
     /\ ~Is2xx3xx(last.status)
     /\ ~Is5xx(last.status)
     /\ last.path # "degraded") =>
        /\ ret = [shouldBackoff |-> FALSE, delay |-> 0, err |-> NoError]
        /\ mgr.backoffActive = last.preActive
        /\ mgr.currentDelay = last.preDelay

\* C37: the same for an observation that is not a 403 bringing the 403s
\* inside the window to the threshold; that one returns (false, 0, fatal
\* error), and it too leaves backoffActive and currentDelay unchanged.
C37_OtherStatusKeepsBackoff ==
    (/\ nObs > 0
     /\ mgr.enabled
     /\ ~last.preCancelled
     /\ ~Is2xx3xx(last.status)
     /\ ~Is5xx(last.status)
     /\ last.path # "degraded") =>
        /\ mgr.backoffActive = last.preActive
        /\ mgr.currentDelay = last.preDelay
        /\ IF last.path = "threshold"
           THEN /\ last.status = 403
                /\ ret = [shouldBackoff |-> FALSE, delay |-> 0,
                          err |-> ErrThreshold(Len(mgr.forbiddenErrors),
                                               mgr.forbiddenErrorWindow)]
           ELSE ret = [shouldBackoff |-> FALSE, delay |-> 0, err |-> NoError]

\* C37 witness: a 404 met backoff active at an escalated delay and left it
\* active at that delay.
C37_Witness ==
    /\ last.status = 404
    /\ last.path = "normal"
    /\ mgr.enabled
    /\ last.preActive
    /\ last.preDelay > mgr.initialDelay
    /\ mgr.backoffActive
    /\ mgr.currentDelay = last.preDelay

----------------------------------------------------------------------------
(* Claims about the worker loop and the result channel, checked under Spec *)

\* Workers of phase p that hold a token and have not issued their request yet.
HoldingToken(p) == Cardinality({i \in 1..MaxWorkers : workers[p][i].at = "crawl"})

\* C32: a worker issues the request for a URL only after it has acquired a
\* token for it: each worker goes dequeue, acquire, request, emit result and
\* back to the dequeue; a token is granted exactly by the acquire step and a
\* request issued exactly by the request step; and in every state the
\* requests issued in a phase plus the tokens held by its workers are the
\* tokens its limiter has granted, so the requests never exceed the tokens.
C32_TokenBeforeRequest ==
    /\ [](\A p \in Phases :
              /\ issued[p] + HoldingToken(p) = Granted(p)
              /\ issued[p] <= Granted(p))
    /\ [][ \A p \in Phases :
             /\ issued'[p] - issued[p] =
                    Cardinality({i \in 1..MaxWorkers :
                                     workers[p][i].at = "crawl" /\ workers'[p][i].at = "fetch"})
             /\ \A i \in 1..MaxWorkers :
                    workers'[p][i].at # workers[p][i].at =>
                        <<workers[p][i].at, workers'[p][i].at>> \in
                            { <<"idle", "recv">>, <<"recv", "wait">>, <<"wait", "crawl">>,
                              <<"crawl", "fetch">>, <<"fetch", "recv">>, <<"recv", "done">> } ]_vars

\* C32 witness: two workers of a standard crawl at rate 1: one has issued its
\* request, the other has waited a tick for its token and holds it, its
\* request not yet issued.
C32_Witness ==
    /\ cfg.maxWorkers = 2
    /\ cfg.requestRate = 1
    /\ issued["standard"] = 1
    /\ Granted("standard") = 2
    /\ HoldingToken("standard") = 1
    /\ limiters[WorkerLimiter("standard", 1)].elapsed = 1

\* C38: in every phase the result channel is closed only after every worker
\* of the phase has exited; no worker sends on a closed result channel; a
\* worker about to send finds room in the channel, so it never blocks; and
\* when the collection loop has ended the channel is closed and drained and
\* the aggregator was given one result for every request the workers issued.
C38_ResultChannelOrder ==
    \A p \in Phases :
        /\ ~panicked
        /\ resultChan[p].closed =>
               /\ wg[p] = 0
               /\ \A i \in 1..cfg.maxWorkers : workers[p][i].at = "done"
        /\ \A i \in 1..MaxWorkers :
               workers[p][i].at = "fetch" =>
                   /\ ~resultChan[p].closed
                   /\ Len(resultChan[p].buf) < cfg.nURLs
        /\ returned[p] =>
               /\ resultChan[p].closed
               /\ resultChan[p].buf = <<>>
               /\ SumTo(recorded[p], MaxTargets) = issued[p]
               /\ issued[p] = cfg.nURLs

\* C38 witness: the verify phase of two workers over two URLs has returned:
\* both workers exited, the channel closed, both results collected.
C38_Witness ==
    /\ cfg.maxWorkers = 2
    /\ cfg.nURLs = 2
    /\ returned["verify"]
    /\ resultChan["verify"].closed
    /\ SumTo(recorded["verify"], MaxTargets) = 2
    /\ Len(seen403) >= 1

----------------------------------------------------------------------------
(* Claims about the resolution of a sitemap index, checked under Spec *)

----------------------------------------------------------------------------
(* Claims about the minimum and the phase recording, checked under SpecStats *)

\* C39: whenever at least one result has been recorded with AddResult, the
\* final report's MinDuration is the smallest duration recorded, whatever
\* the durations: after the first result it is that result's duration, and
\* after every further result the smaller of the minimum reported before and
\* the duration just recorded.
C39_MinIsSmallest ==
    [][ (~cfg.cacheVerificationMode /\ stats'.processed = stats.processed + 1) =>
            LET hour == HourTicks(cfg.requestRate)
                d == stats'.totalDuration - stats.totalDuration
            IN  GetFinalStats(stats', hour).minDuration =
                    IF stats.processed = 0 THEN d
                    ELSE Min(GetFinalStats(stats, hour).minDuration, d) ]_vars

----------------------------------------------------------------------------
(* Claims about the progress reporter, checked under SpecReport *)

\* C34: the progress reporter stops on run completion: once every result has
\* been recorded and the final report has been printed, no further progress
\* snapshot is printed.
C34_NoSnapshotAfterFinalReport ==
    [][reporter.finalPrinted => reporter'.snapshots = reporter.snapshots]_vars

====
